---------------------------- MODULE Spec2Model ----------------------------
(***************************************************************************)
(* Job orchestration of the presentation-to-video pipeline: one job row,   *)
(* its task rows, the dispatcher (decompose_presentation), the synthesis   *)
(* workers (synthesize_audio), the barrier and assembler                   *)
(* (assemble_video_with_deps, assemble_video) and the cancel endpoint      *)
(* (cancel_job), interleaved at the granularity of their database commits, *)
(* broker messages and object-store writes.                                *)
(***************************************************************************)
EXTENDS Integers, Sequences, FiniteSets, TLC

(* ---------------------------- bounds ---------------------------------- *)
\* largest slide count a deck of the model has
MaxSlides == 1
\* the barrier's max_wait_time argument, in units of the 10 s polling sleep
MaxWait == 2

(* --------------------------- constants -------------------------------- *)
NULL == "NULL"
\* a task row without celery_task_id
NoId == 0
\* num_slides column before decomposition wrote it
NoSlides == -1

Slides == 1..MaxSlides
TerminalJob == {"completed", "failed", "cancelled"}
TerminalTask == {"completed", "failed", "cancelled"}
\* celery.states.READY_STATES: what AsyncResult.ready() accepts
READY_STATES == {"SUCCESS", "FAILURE", "REVOKED"}
VIDEO_PATH == "/output/1.mp4"
TIMEOUT_MSG == "Audio synthesis timeout"
SYNTH_MSG == "Audio synthesis failed for slide"

VARIABLES
  job,            \* the presentation_jobs row of the job
  tasks,          \* the job_tasks rows of the job, in creation order
  pcD,            \* position of decompose_presentation
  num_slides,     \* decompose_presentation: local num_slides
  image_paths,    \* decompose_presentation: number of image paths returned
  di,             \* decompose_presentation: loop variable i of the fan-out
  pcS,            \* position of each synthesize_audio task (by slide)
  result,         \* result backend: state of each synthesize_audio task id
  revoked,        \* task ids revoked through the broker
  audio,          \* slides whose {job_id}/audio/slide_{n}.wav object exists
  pcA,            \* position of assemble_video_with_deps / assemble_video
  audio_task_ids, \* assemble_video_with_deps argument
  completed_tasks,\* assemble_video_with_deps: local set
  start_time,     \* assemble_video_with_deps: local start_time
  now,            \* wall clock, in polling intervals
  output,         \* TRUE when output/{job_id}.mp4 exists
  scheduled,      \* number of assemble_video_with_deps messages sent
  cancelDone,     \* cancel_job has committed at least once
  cancelScheduled,\* cancel_job has committed after the assemble task was sent
  timedOut,       \* the barrier took its timeout branch
  phaseB          \* assemble_video_with_deps has called assemble_video

\* one synthesize_audio execution, statement by statement (tasks_gpu.py)
VARIABLES
  pcV,                 \* position of the execution; "idle" when not followed
  synth_slide,         \* synthesize_audio argument slide_number
  use_builtin_speaker, \* the job's voice is a builtin:// speaker
  notes,               \* content of {job_id}/notes/slide_{n}.txt
  note_text,           \* synthesize_audio: local note_text
  base_tts,            \* module global base_tts
  save_path,           \* what temp_output_{job_id}_{n}.wav holds
  used,                \* facilities the execution has called
  raised,              \* statements of the execution that raised
  softAt               \* position at which the soft time limit fired

synthVars == <<pcV, synth_slide, use_builtin_speaker, notes, note_text,
               base_tts, save_path, used, raised, softAt>>

\* one cleanup request and the job it looks at (cleanup_service.py)
VARIABLES
  pcC,               \* position of the cleanup request; "idle" when none
  entry,             \* the request comes from the API or from the CLI
  req_days_old,      \* days_old / --days of the request
  req_status_filter, \* status_filter / --status of the request
  status_filter,     \* cleanup_old_jobs argument status_filter
  age_days,          \* whole days since the job's created_at
  row_present,       \* the presentation_jobs row of the job exists
  store,             \* the job's objects in the object store, by kind
  faults,            \* kinds whose deletion met an object-store error
  cleanup_stats,     \* cleanup_old_jobs: jobs_deleted and errors
  jobs_count         \* get_cleanup_preview: jobs_count of the preview taken

cleanupVars == <<pcC, entry, req_days_old, req_status_filter, status_filter,
                 age_days, row_present, store, faults, cleanup_stats,
                 jobs_count>>

\* crud.py: update_job_status called on a table that may lack the job row
VARIABLES
  pcU,         \* number of update_job_status calls made; -1 when not followed
  crud_table,  \* presentation_jobs: the rows with the job's id (none or one)
  crud_args,   \* the arguments both calls are made with
  crud_ret     \* what the last call returned: the rows returned (none: None)

crudVars == <<pcU, crud_table, crud_args, crud_ret>>

\* crud.py, dashboard.py: the writes to one job_tasks row, with their times
VARIABLES
  task_row,    \* the row, started_at and completed_at as times
  utcnow       \* datetime.utcnow(); 0 when the row is not followed

rowVars == <<task_row, utcnow>>

\* presentations.py: create_presentation requests, one after the other
VARIABLES
  pcP,          \* position of the request; "idle" when none is followed
  content_type, \* file.content_type of the request
  api_rows,     \* presentation_jobs: the rows, the id of a row its index
  api_sent,     \* the job ids of the decompose_presentation messages sent
  ingest,       \* number of objects uploaded to the ingest bucket
  response,     \* status code of the response; 0 before it
  rows_before,  \* presentation_jobs when the request arrived
  sent_before,  \* the messages sent when the request arrived
  requests      \* number of requests made

apiVars == <<pcP, content_type, api_rows, api_sent, ingest, response,
             rows_before, sent_before, requests>>

\* tasks_cpu.py, tasks_gpu.py: one task execution as the broker sees it
VARIABLES
  bk_task,       \* the task executed; "none" when no execution is followed
  bk_pc,         \* position of the execution
  bk_job_status, \* status of the job row
  bk_row_status, \* status of the task row of the execution
  bk_raised,     \* what the body of the task raised; "none" when nothing
  bk_exc,        \* an exception is propagating
  bk_state       \* result backend: state of the task

brokerVars == <<bk_task, bk_pc, bk_job_status, bk_row_status, bk_raised,
                bk_exc, bk_state>>

\* tasks_gpu.py: parse_note_text_tags on a note with at most one directive
VARIABLES
  pcT,        \* "idle" when no parse is followed, then "text", "parsed"
  tag_name,   \* the name of the directive in the note; "none" without one
  tag_value,  \* the characters between the colon and the closing bracket
  speed       \* the speed returned, in units of 1/Scale; 0 before the parse

parseVars == <<pcT, tag_name, tag_value, speed>>

\* the broker delivers the decompose_presentation message more than once
VARIABLES
  deliveries,     \* deliveries of the message so far; 0 when not counted
  scheduled_once  \* assemble tasks scheduled when the last delivery came

redeliverVars == <<deliveries, scheduled_once>>
\* dashboard.py: one cancel_job request and its response
VARIABLES
  cancel_id,      \* path parameter job_id of the last request; 0 before one
  cancel_status   \* HTTP status of its response; 0 before one

cancelVars == <<cancel_id, cancel_status>>

\* the object keys of a slide's audio: its writer and its two readers
VARIABLES
  key_pc,       \* "idle" when not followed, "start", "completed", "raised"
  key_job_id,   \* id of the job's row
  key_uuid,     \* the uuid4 create_presentation named the upload with
  key_slide,    \* synthesize_audio argument slide_number
  key_objects,  \* object store: the <<bucket, object name>> pairs that exist
  key_asm,      \* assemble_video, slide's audio: "none" before it has listed
  key_dl_slide, \* download_slide_audio path parameter; 0 before a request
  key_dl        \* HTTP status of its response; 0 before a request

keyVars == <<key_pc, key_job_id, key_uuid, key_slide, key_objects, key_asm,
             key_dl_slide, key_dl>>

\* the tasks of a job that cleanup_specific_jobs deletes while they run
VARIABLES
  fl_synth,  \* position of the job's synthesize_audio task; "idle": none
  fl_asm     \* position of the job's assemble task; "idle": none

flightVars == <<fl_synth, fl_asm>>

\* one note given to both copies of parse_note_text_tags
VARIABLES
  tg_note,    \* the note: its directives and words, in order
  tg_inline,  \* what tasks_gpu.parse_note_text_tags returned; <<>> before
  tg_proc     \* what TextProcessor.parse_note_text_tags returned; <<>> before

tagsVars == <<tg_note, tg_inline, tg_proc>>

moreVars == <<cancelVars, keyVars, flightVars, tagsVars>>
restVars == <<crudVars, rowVars, apiVars, brokerVars, parseVars,
              redeliverVars, moreVars>>
otherVars == <<synthVars, cleanupVars, restVars>>

vars == <<job, tasks, pcD, num_slides, image_paths, di, pcS, result, revoked,
          audio, pcA, audio_task_ids, completed_tasks, start_time, now,
          output, scheduled, cancelDone, cancelScheduled,
          timedOut, phaseB, otherVars>>

decomposeVars == <<pcD, num_slides, image_paths, di>>
assembleVars == <<pcA, audio_task_ids, completed_tasks, start_time>>
historyVars == <<cancelDone, cancelScheduled, timedOut, phaseB>>

(* ----------------------------- crud.py -------------------------------- *)
\* create_presentation_job: the row a new job starts with
NewJob ==
  [status |-> "pending", s3_video_path |-> NULL, error_message |-> NULL,
   current_stage |-> NULL, num_slides |-> NoSlides]

\* update_job_status: status is always written; the optional columns only
\* when the argument is truthy
update_job_status(j, status, video_path, error_message, current_stage) ==
  [j EXCEPT
     !.status = status,
     !.s3_video_path = IF video_path \notin {NULL, ""} THEN video_path ELSE @,
     !.error_message =
        IF error_message \notin {NULL, ""} THEN error_message ELSE @,
     !.current_stage =
        IF current_stage \notin {NULL, ""} THEN current_stage ELSE @]

\* the slide count is not written
update_job_slides_skipped(j, n) == j

update_job_slides(j, n) == [j EXCEPT !.num_slides = n]

\* create_job_task: a new row, status pending
create_job_task(task_type, slide_number) ==
  [task_type |-> task_type, slide_number |-> slide_number,
   celery_task_id |-> NoId, status |-> "pending",
   started_at |-> FALSE, completed_at |-> FALSE]

\* the row update of update_task_status
UpdateRow(row, status, set_celery_task_id) ==
  [row EXCEPT
     !.status = IF status # NULL THEN status ELSE @,
     !.started_at = IF status = "running" THEN TRUE ELSE @,
     !.completed_at = IF status \in TerminalTask THEN TRUE ELSE @,
     !.celery_task_id =
        IF set_celery_task_id # NoId THEN set_celery_task_id ELSE @]

\* .filter(JobTask.celery_task_id == id).first(): 0 when there is no row
RowByCeleryId(ts, cid) ==
  LET hits == {r \in 1..Len(ts) : ts[r].celery_task_id = cid}
  IN IF hits = {} THEN 0
     ELSE CHOOSE r \in hits : \A q \in hits : r <= q

\* update_task_status: row r (0: no row found, nothing is written)
update_task_status(ts, r, status, set_celery_task_id) ==
  IF r = 0 THEN ts
  ELSE [ts EXCEPT ![r] = UpdateRow(@, status, set_celery_task_id)]

(* ------------------------------- Init ---------------------------------- *)
\* no synthesize_audio execution is followed statement by statement
SynthIdle ==
  /\ pcV = "idle"
  /\ synth_slide = 0
  /\ use_builtin_speaker = FALSE
  /\ notes = ""
  /\ note_text = ""
  /\ base_tts = "None"
  /\ save_path = "none"
  /\ used = {}
  /\ raised = {}
  /\ softAt = "none"

\* jobs_count before a preview was taken
NoPreview == -1

\* no cleanup request is followed
CleanupIdle ==
  /\ pcC = "idle"
  /\ entry = "none"
  /\ req_days_old = 0
  /\ req_status_filter = {}
  /\ status_filter = {}
  /\ age_days = 0
  /\ row_present = TRUE
  /\ store = {}
  /\ faults = {}
  /\ cleanup_stats = [jobs_deleted |-> 0, errors |-> {}]
  /\ jobs_count = NoPreview

\* no update_job_status call is followed
CrudIdle ==
  /\ pcU = -1
  /\ crud_table = <<>>
  /\ crud_args = <<>>
  /\ crud_ret = <<>>

\* a started_at or completed_at column that is NULL
NoTime == 0

\* create_job_task, the two time columns as times
NewTaskRow ==
  [celery_task_id |-> NoId, status |-> "pending", started_at |-> NoTime,
   completed_at |-> NoTime]

\* the writes to the row are not followed
RowIdle ==
  /\ task_row = NewTaskRow
  /\ utcnow = 0

\* no create_presentation request is followed
ApiIdle ==
  /\ pcP = "idle"
  /\ content_type = "none"
  /\ api_rows = <<>>
  /\ api_sent = <<>>
  /\ ingest = 0
  /\ response = 0
  /\ rows_before = <<>>
  /\ sent_before = <<>>
  /\ requests = 0

\* no task execution is followed
BrokerIdle ==
  /\ bk_task = "none"
  /\ bk_pc = "idle"
  /\ bk_job_status = "pending"
  /\ bk_row_status = "pending"
  /\ bk_raised = "none"
  /\ bk_exc = FALSE
  /\ bk_state = "PENDING"

\* no parse is followed
ParseIdle ==
  /\ pcT = "idle"
  /\ tag_name = "none"
  /\ tag_value = <<>>
  /\ speed = 0

\* the deliveries of the decompose_presentation message are not counted
RedeliverIdle ==
  /\ deliveries = 0
  /\ scheduled_once = 0

\* no cancel_job request is followed
CancelIdle ==
  /\ cancel_id = 0
  /\ cancel_status = 0

\* no object key is followed
KeyIdle ==
  /\ key_pc = "idle"
  /\ key_job_id = 0
  /\ key_uuid = ""
  /\ key_slide = 0
  /\ key_objects = {}
  /\ key_asm = "none"
  /\ key_dl_slide = 0
  /\ key_dl = 0

\* no task in flight is followed
FlightIdle ==
  /\ fl_synth = "idle"
  /\ fl_asm = "idle"

\* no note is followed through both parsers
TagsIdle ==
  /\ tg_note = <<>>
  /\ tg_inline = <<>>
  /\ tg_proc = <<>>

MoreIdle == CancelIdle /\ KeyIdle /\ FlightIdle /\ TagsIdle

BaseIdle ==
  CrudIdle /\ RowIdle /\ ApiIdle /\ BrokerIdle /\ ParseIdle /\ RedeliverIdle

RestIdle == BaseIdle /\ MoreIdle

\* create_presentation has committed the job row and sent the
\* decompose_presentation message
PipelineInit ==
  /\ job = NewJob
  /\ tasks = <<>>
  /\ pcD = "queued"
  /\ num_slides = 0
  /\ image_paths = 0
  /\ di = 0
  /\ pcS = [s \in Slides |-> "none"]
  /\ result = [s \in Slides |-> "PENDING"]
  /\ revoked = {}
  /\ audio = {}
  /\ pcA = "none"
  /\ audio_task_ids = {}
  /\ completed_tasks = {}
  /\ start_time = 0
  /\ now = 0
  /\ output = FALSE
  /\ scheduled = 0
  /\ cancelDone = FALSE
  /\ cancelScheduled = FALSE
  /\ timedOut = FALSE
  /\ phaseB = FALSE

Init ==
  /\ PipelineInit
  /\ SynthIdle
  /\ CleanupIdle
  /\ RestIdle

(* ---------------------- decompose_presentation ------------------------- *)
\* lines 20-27: the job is found; the decomposition row is created and set
\* running
DecomposeBegin ==
  /\ pcD = "queued"
  /\ tasks' = update_task_status(
                Append(tasks, create_job_task("decomposition", 0)),
                Len(tasks) + 1, "running", NoId)
  /\ pcD' = "set_processing"
  /\ UNCHANGED <<otherVars, job, num_slides, image_paths, di, pcS, result, revoked,
                 audio, assembleVars, now, output, scheduled,
                 historyVars>>

\* line 29
DecomposeSetProcessing ==
  /\ pcD = "set_processing"
  /\ job' = update_job_status(job, "processing_slides", NULL, NULL,
                              "decomposing")
  /\ pcD' = "read_deck"
  /\ UNCHANGED <<otherVars, tasks, num_slides, image_paths, di, pcS, result, revoked,
                 audio, assembleVars, now, output, scheduled, historyVars>>

\* lines 31-57: the deck is read, its slide count stored, the notes uploaded
DecomposeReadDeck ==
  /\ pcD = "read_deck"
  /\ \E n \in 0..MaxSlides :
       /\ num_slides' = n
       /\ job' = update_job_slides(job, n)
  /\ pcD' = "render"
  /\ UNCHANGED <<otherVars, tasks, image_paths, di, pcS, result, revoked, audio,
                 assembleVars, now, output, scheduled,
                 historyVars>>

\* lines 31-39 raise (object store or parser error)
DecomposeReadDeckRaises ==
  /\ pcD = "read_deck"
  /\ pcD' = "except"
  /\ UNCHANGED <<otherVars, job, tasks, num_slides, image_paths, di, pcS, result,
                 revoked, audio, assembleVars, now, output, scheduled,
                 historyVars>>

\* lines 59-66: the renderer answers with k image paths; a count other than
\* num_slides raises
DecomposeRender ==
  /\ pcD = "render"
  /\ \E k \in 0..MaxSlides :
       /\ image_paths' = k
       /\ pcD' = IF k # num_slides THEN "except" ELSE "complete_task"
  /\ UNCHANGED <<otherVars, job, tasks, num_slides, di, pcS, result, revoked, audio,
                 assembleVars, now, output, scheduled,
                 historyVars>>

\* line 62: raise_for_status raises
DecomposeRenderRaises ==
  /\ pcD = "render"
  /\ pcD' = "except"
  /\ UNCHANGED <<otherVars, job, tasks, num_slides, image_paths, di, pcS, result,
                 revoked, audio, assembleVars, now, output, scheduled,
                 historyVars>>

\* decomp_task of the execution: the decomposition row created last
DecompTask(ts) ==
  CHOOSE r \in 1..Len(ts) :
    /\ ts[r].task_type = "decomposition"
    /\ \A q \in 1..Len(ts) : ts[q].task_type = "decomposition" => q <= r

\* line 69: the decomposition row of the execution is completed
DecomposeCompleteTask ==
  /\ pcD = "complete_task"
  /\ tasks' = update_task_status(tasks, DecompTask(tasks), "completed", NoId)
  /\ di' = 0
  /\ pcD' = IF num_slides > 0 THEN "create_task" ELSE "schedule"
  /\ UNCHANGED <<otherVars, job, num_slides, image_paths, pcS, result, revoked, audio,
                 assembleVars, now, output, scheduled,
                 historyVars>>

\* a fan-out that numbers the slides from 0
FanOutSlideZeroBased(i) == i

\* the slide numbers the fan-out loop goes through: range(num_slides), i+1
FanOutSlide(i) == i + 1

\* line 75
DecomposeCreateAudioTask ==
  /\ pcD = "create_task"
  /\ tasks' = Append(tasks, create_job_task("audio_synthesis",
                                            FanOutSlide(di)))
  /\ pcD' = "send_task"
  /\ UNCHANGED <<otherVars, job, num_slides, image_paths, di, pcS, result, revoked,
                 audio, assembleVars, now, output, scheduled,
                 historyVars>>

\* lines 78-83: the synthesize_audio message goes to the gpu queue
DecomposeSendTask ==
  /\ pcD = "send_task"
  /\ pcS' = [pcS EXCEPT ![FanOutSlide(di)] = "queued"]
  /\ pcD' = "set_task_id"
  /\ UNCHANGED <<otherVars, job, tasks, num_slides, image_paths, di, result, revoked,
                 audio, assembleVars, now, output, scheduled,
                 historyVars>>

\* line 80 raises (broker unreachable)
DecomposeSendTaskRaises ==
  /\ pcD = "send_task"
  /\ pcD' = "except"
  /\ UNCHANGED <<otherVars, job, tasks, num_slides, image_paths, di, pcS, result,
                 revoked, audio, assembleVars, now, output, scheduled,
                 historyVars>>

\* line 87: the row just created gets the celery task id
DecomposeSetTaskId ==
  /\ pcD = "set_task_id"
  /\ tasks' = update_task_status(tasks, Len(tasks), NULL, FanOutSlide(di))
  /\ di' = di + 1
  /\ pcD' = IF di + 1 < num_slides THEN "create_task" ELSE "schedule"
  /\ UNCHANGED <<otherVars, job, num_slides, image_paths, pcS, result, revoked, audio,
                 assembleVars, now, output, scheduled,
                 historyVars>>

\* line 96: assemble_video_with_deps.apply_async
DecomposeSchedule ==
  /\ pcD = "schedule"
  /\ pcA' = "queued"
  /\ audio_task_ids' = 1..num_slides
  /\ scheduled' = scheduled + 1
  /\ pcD' = "set_synthesizing"
  /\ UNCHANGED <<otherVars, job, tasks, num_slides, image_paths, di, pcS, result,
                 revoked, audio, completed_tasks, start_time, now, output,
                 historyVars>>

\* line 98
DecomposeSetSynthesizing ==
  /\ pcD = "set_synthesizing"
  /\ job' = update_job_status(job, "synthesizing_audio", NULL, NULL,
                              "synthesizing_audio")
  /\ pcD' = "done"
  /\ UNCHANGED <<otherVars, tasks, num_slides, image_paths, di, pcS, result, revoked,
                 audio, assembleVars, now, output, scheduled, historyVars>>

\* lines 100-102
DecomposeExcept ==
  /\ pcD = "except"
  /\ job' = update_job_status(job, "failed", NULL, NULL, NULL)
  /\ pcD' = "done"
  /\ UNCHANGED <<otherVars, tasks, num_slides, image_paths, di, pcS, result, revoked,
                 audio, assembleVars, now, output, scheduled, historyVars>>

Decompose ==
  \/ DecomposeBegin
  \/ DecomposeSetProcessing
  \/ DecomposeReadDeck
  \/ DecomposeReadDeckRaises
  \/ DecomposeRender
  \/ DecomposeRenderRaises
  \/ DecomposeCompleteTask
  \/ DecomposeCreateAudioTask
  \/ DecomposeSendTask
  \/ DecomposeSendTaskRaises
  \/ DecomposeSetTaskId
  \/ DecomposeSchedule
  \/ DecomposeSetSynthesizing
  \/ DecomposeExcept

(* ------------------------- synthesize_audio ---------------------------- *)
\* The worker takes the message of slide s: the task is STARTED
\* (task_track_started) and lines 118-119 set the row with this celery task
\* id to running, when such a row exists
SynthStart(s) ==
  /\ pcS[s] = "queued"
  /\ s \notin revoked
  /\ result' = [result EXCEPT ![s] = "STARTED"]
  /\ tasks' = update_task_status(tasks, RowByCeleryId(tasks, s), "running",
                                 NoId)
  /\ pcS' = [pcS EXCEPT ![s] = "running"]
  /\ UNCHANGED <<otherVars, job, decomposeVars, revoked, audio, assembleVars, now,
                 output, scheduled, historyVars>>

\* The worker discards the message of a revoked task id
SynthDiscard(s) ==
  /\ pcS[s] = "queued"
  /\ s \in revoked
  /\ result' = [result EXCEPT ![s] = "REVOKED"]
  /\ pcS' = [pcS EXCEPT ![s] = "done"]
  /\ UNCHANGED <<otherVars, job, tasks, decomposeVars, revoked, audio, assembleVars,
                 now, output, scheduled, historyVars>>

\* lines 120-311: an audio file is produced (synthesis or one of the inner
\* fallbacks to silence) and uploaded to {job_id}/audio/slide_{n}.wav
SynthUpload(s) ==
  /\ pcS[s] = "running"
  /\ audio' = audio \cup {s}
  /\ pcS' = [pcS EXCEPT ![s] = "uploaded"]
  /\ UNCHANGED <<otherVars, job, tasks, decomposeVars, result, revoked, assembleVars,
                 now, output, scheduled, historyVars>>

\* lines 120-311 raise outside the inner fallbacks (object store, reference
\* audio processing, upload)
SynthRaises(s) ==
  /\ pcS[s] = "running"
  /\ pcS' = [pcS EXCEPT ![s] = "except"]
  /\ UNCHANGED <<otherVars, job, tasks, decomposeVars, result, revoked, audio,
                 assembleVars, now, output, scheduled,
                 historyVars>>

\* lines 314-317: the row is completed and the task returns
SynthComplete(s) ==
  /\ pcS[s] = "uploaded"
  /\ tasks' = update_task_status(tasks, RowByCeleryId(tasks, s), "completed",
                                 NoId)
  /\ result' = [result EXCEPT ![s] = "SUCCESS"]
  /\ pcS' = [pcS EXCEPT ![s] = "done"]
  /\ UNCHANGED <<otherVars, job, decomposeVars, revoked, audio, assembleVars, now,
                 output, scheduled, historyVars>>

\* lines 345-348
SynthExceptTask(s) ==
  /\ pcS[s] = "except"
  /\ tasks' = update_task_status(tasks, RowByCeleryId(tasks, s), "failed",
                                 NoId)
  /\ pcS' = [pcS EXCEPT ![s] = "except_job"]
  /\ UNCHANGED <<otherVars, job, decomposeVars, result, revoked, audio, assembleVars,
                 now, output, scheduled, historyVars>>

\* lines 349-352: the job is failed with an error text, the exception is
\* raised again
SynthExceptJob(s) ==
  /\ pcS[s] = "except_job"
  /\ job' = update_job_status(job, "failed", NULL, SYNTH_MSG, NULL)
  /\ result' = [result EXCEPT ![s] = "FAILURE"]
  /\ pcS' = [pcS EXCEPT ![s] = "done"]
  /\ UNCHANGED <<otherVars, tasks, decomposeVars, revoked, audio, assembleVars, now,
                 output, scheduled, historyVars>>

\* lines 319-343: the soft time limit fires outside the inner try of lines
\* 192-301 (inside it, line 296 catches it and SynthUpload goes on with
\* silence).  The handler reads job.s3_uuid, which no job row has, so it
\* raises and line 343 raises SoftTimeLimitExceeded out of the task: nothing
\* is uploaded to the audio key, no row is written
SynthSoftTimeLimit(s) ==
  /\ pcS[s] \in {"running", "uploaded"}
  /\ result' = [result EXCEPT ![s] = "FAILURE"]
  /\ pcS' = [pcS EXCEPT ![s] = "done"]
  /\ UNCHANGED <<otherVars, job, tasks, decomposeVars, revoked, audio, assembleVars,
                 now, output, scheduled, historyVars>>

\* revoke(terminate=True) reaches the worker while the task runs: the
\* process is killed wherever it is
SynthTerminate(s) ==
  /\ pcS[s] \in {"running", "uploaded", "except", "except_job"}
  /\ s \in revoked
  /\ result' = [result EXCEPT ![s] = "REVOKED"]
  /\ pcS' = [pcS EXCEPT ![s] = "done"]
  /\ UNCHANGED <<otherVars, job, tasks, decomposeVars, revoked, audio, assembleVars,
                 now, output, scheduled, historyVars>>

\* the steps of the synthesize_audio task of slide s
SynthesizeSlide(s) ==
  \/ SynthStart(s)
  \/ SynthDiscard(s)
  \/ SynthUpload(s)
  \/ SynthRaises(s)
  \/ SynthComplete(s)
  \/ SynthExceptTask(s)
  \/ SynthExceptJob(s)
  \/ SynthSoftTimeLimit(s)
  \/ SynthTerminate(s)

Synthesize == \E s \in Slides : SynthesizeSlide(s)

(* --------------------- assemble_video_with_deps ------------------------ *)
\* lines 121-128
BarrierStart ==
  /\ pcA = "queued"
  /\ start_time' = now
  /\ completed_tasks' = {}
  /\ pcA' = "while"
  /\ UNCHANGED <<otherVars, job, tasks, decomposeVars, pcS, result, revoked, audio,
                 audio_task_ids, now, output, scheduled,
                 historyVars>>

\* line 131: the loop condition
BarrierOpen(done, ids) == Cardinality(done) >= Cardinality(ids)

\* line 135: the timeout test
TimedOut(elapsed_time) == elapsed_time > MaxWait

\* lines 131-135: the loop goes on, the deadline has not passed
BarrierEnter ==
  /\ pcA = "while"
  /\ ~BarrierOpen(completed_tasks, audio_task_ids)
  /\ ~TimedOut(now - start_time)
  /\ pcA' = "poll"
  /\ UNCHANGED <<otherVars, job, tasks, decomposeVars, pcS, result, revoked, audio,
                 audio_task_ids, completed_tasks, start_time, now, output,
                 scheduled, historyVars>>

\* a timeout branch without its return: the job is failed and assemble_video
\* is called all the same
BarrierTimeoutProceeds ==
  /\ pcA = "while"
  /\ ~BarrierOpen(completed_tasks, audio_task_ids)
  /\ TimedOut(now - start_time)
  /\ job' = update_job_status(job, "failed", NULL, TIMEOUT_MSG, NULL)
  /\ timedOut' = TRUE
  /\ phaseB' = TRUE
  /\ pcA' = "assemble"
  /\ UNCHANGED <<otherVars, tasks, decomposeVars, pcS, result, revoked, audio,
                 audio_task_ids, completed_tasks, start_time, now, output,
                 scheduled, cancelDone, cancelScheduled>>

\* lines 135-138: the deadline has passed; the job is failed, the task
\* returns
BarrierTimeout ==
  /\ pcA = "while"
  /\ ~BarrierOpen(completed_tasks, audio_task_ids)
  /\ TimedOut(now - start_time)
  /\ job' = update_job_status(job, "failed", NULL, TIMEOUT_MSG, NULL)
  /\ timedOut' = TRUE
  /\ pcA' = "done"
  /\ UNCHANGED <<otherVars, tasks, decomposeVars, pcS, result, revoked, audio,
                 audio_task_ids, completed_tasks, start_time, now, output,
                 scheduled, cancelDone, cancelScheduled, phaseB>>

\* lines 141-151 with only the successful branch (144-146) adding the task
SettledOnlySuccessful(ids, done, res) ==
  done \cup {t \in ids \ done : res[t] = "SUCCESS"}

\* a polling round that adds every task id, ready or not
SettledWithoutReadyCheck(ids, done, res) == done \cup ids

\* lines 143-151: the task ids one polling round adds to completed_tasks
Settled(ids, done, res) ==
  done \cup {t \in ids \ done : res[t] \in READY_STATES}

\* lines 141-154: one polling round
BarrierPoll ==
  /\ pcA = "poll"
  /\ completed_tasks' = Settled(audio_task_ids, completed_tasks, result)
  /\ pcA' = IF BarrierOpen(completed_tasks', audio_task_ids)
            THEN "while" ELSE "sleep"
  /\ UNCHANGED <<otherVars, job, tasks, decomposeVars, pcS, result, revoked, audio,
                 audio_task_ids, start_time, now, output, scheduled,
                 historyVars>>

\* line 143 raises (result backend unreachable): lines 165-168 fail the job
\* and raise again
BarrierPollRaises ==
  /\ pcA = "poll"
  /\ job' = update_job_status(job, "failed", NULL, NULL, NULL)
  /\ pcA' = "done"
  /\ UNCHANGED <<otherVars, tasks, decomposeVars, pcS, result, revoked, audio,
                 audio_task_ids, completed_tasks, start_time, now, output,
                 scheduled, historyVars>>

\* line 155 as a sleep during which the clock does not advance
BarrierSleepNoTime ==
  /\ pcA = "sleep"
  /\ pcA' = "while"
  /\ UNCHANGED <<otherVars, job, tasks, decomposeVars, pcS, result, revoked, audio,
                 audio_task_ids, completed_tasks, start_time, now, output,
                 scheduled, historyVars>>

\* line 157: time.sleep(10)
BarrierSleep ==
  /\ pcA = "sleep"
  /\ now' = now + 1
  /\ pcA' = "while"
  /\ UNCHANGED <<otherVars, job, tasks, decomposeVars, pcS, result, revoked, audio,
                 audio_task_ids, completed_tasks, start_time, output,
                 scheduled, historyVars>>

\* time passes while the barrier runs, not only in its sleep
Tick ==
  /\ pcA \in {"while", "poll", "sleep"}
  /\ now - start_time <= MaxWait
  /\ now' = now + 1
  /\ UNCHANGED <<otherVars, job, tasks, decomposeVars, pcS, result, revoked, audio,
                 assembleVars, output, scheduled, historyVars>>

\* lines 131, 159-163: the loop has ended, assemble_video is called
BarrierExit ==
  /\ pcA = "while"
  /\ BarrierOpen(completed_tasks, audio_task_ids)
  /\ phaseB' = TRUE
  /\ pcA' = "assemble"
  /\ UNCHANGED <<otherVars, job, tasks, decomposeVars, pcS, result, revoked, audio,
                 audio_task_ids, completed_tasks, start_time, now, output,
                 scheduled, cancelDone, cancelScheduled,
                 timedOut>>

(* --------------------------- assemble_video ---------------------------- *)
\* line 183
AssembleSetAssembling ==
  /\ pcA = "assemble"
  /\ job' = update_job_status(job, "assembling_video", NULL, NULL, NULL)
  /\ pcA' = "download"
  /\ UNCHANGED <<otherVars, tasks, decomposeVars, pcS, result, revoked, audio,
                 audio_task_ids, completed_tasks, start_time, now, output,
                 scheduled, historyVars>>

\* lines 223-228: the slides of the image list that have no audio object
MissingAudio(images, objects) == {i \in 1..images : i \notin objects}

\* lines 185-269: images and audio objects are fetched, the clips made and
\* the video written; a slide without audio raises (line 228), and so does
\* concatenate_videoclips on an empty list of clips (line 266)
AssembleClips ==
  /\ pcA = "download"
  /\ pcA' = IF MissingAudio(image_paths, audio) # {} \/ image_paths = 0
            THEN "except" ELSE "upload"
  /\ UNCHANGED <<otherVars, job, tasks, decomposeVars, pcS, result, revoked, audio,
                 audio_task_ids, completed_tasks, start_time, now, output,
                 scheduled, historyVars>>

\* lines 185-269 raise for another reason (object store, muxer)
AssembleClipsRaises ==
  /\ pcA = "download"
  /\ pcA' = "except"
  /\ UNCHANGED <<otherVars, job, tasks, decomposeVars, pcS, result, revoked, audio,
                 audio_task_ids, completed_tasks, start_time, now, output,
                 scheduled, historyVars>>

\* the step of lines 271-278 without its upload
AssembleUploadSkipped ==
  /\ pcA = "upload"
  /\ pcA' = "complete"
  /\ UNCHANGED <<otherVars, job, tasks, decomposeVars, pcS, result, revoked, audio,
                 audio_task_ids, completed_tasks, start_time, now, output,
                 scheduled, historyVars>>

\* lines 271-278: the video goes to output/{job_id}.mp4
AssembleUpload ==
  /\ pcA = "upload"
  /\ output' = TRUE
  /\ pcA' = "complete"
  /\ UNCHANGED <<otherVars, job, tasks, decomposeVars, pcS, result, revoked, audio,
                 audio_task_ids, completed_tasks, start_time, now,
                 scheduled, historyVars>>

\* line 281
AssembleComplete ==
  /\ pcA = "complete"
  /\ job' = update_job_status(job, "completed", VIDEO_PATH, NULL, NULL)
  /\ pcA' = "done"
  /\ UNCHANGED <<otherVars, tasks, decomposeVars, pcS, result, revoked, audio,
                 audio_task_ids, completed_tasks, start_time, now, output,
                 scheduled, historyVars>>

\* lines 283-285
AssembleExcept ==
  /\ pcA = "except"
  /\ job' = update_job_status(job, "failed", NULL, NULL, NULL)
  /\ pcA' = "done"
  /\ UNCHANGED <<otherVars, tasks, decomposeVars, pcS, result, revoked, audio,
                 audio_task_ids, completed_tasks, start_time, now, output,
                 scheduled, historyVars>>

Assemble ==
  \/ BarrierStart
  \/ BarrierEnter
  \/ BarrierTimeout
  \/ BarrierPoll
  \/ BarrierPollRaises
  \/ BarrierSleep
  \/ Tick
  \/ BarrierExit
  \/ AssembleSetAssembling
  \/ AssembleClips
  \/ AssembleClipsRaises
  \/ AssembleUpload
  \/ AssembleComplete
  \/ AssembleExcept

(* ------------------------------ cancel_job ----------------------------- *)
\* line 203: the rows cancel_job revokes
Revocable(ts) ==
  {r \in 1..Len(ts) : /\ ts[r].celery_task_id # NoId
                      /\ ts[r].status \in {"pending", "running"}}

\* lines 209-210
CancelRow(row) == [row EXCEPT !.status = "cancelled", !.completed_at = TRUE]

\* the test of line 195 left out
CancelRejectedNever(status) == FALSE

\* line 195: the statuses in which cancel_job refuses the request
CancelRejected(status) == status \in {"completed", "failed", "cancelled"}

\* lines 198-218: the revokes, the row updates and the one commit.
\* raising: the rows whose revoke raises (line 212), which stay as they are
CancelCommit ==
  /\ \E raising \in SUBSET Revocable(tasks) :
       LET hit == Revocable(tasks) \ raising
       IN /\ revoked' = revoked \cup {tasks[r].celery_task_id : r \in hit}
          /\ tasks' = [r \in 1..Len(tasks) |->
                         IF r \in hit THEN CancelRow(tasks[r]) ELSE tasks[r]]
  /\ job' = [job EXCEPT !.status = "cancelled",
                        !.current_stage = "cancelled"]
  /\ cancelDone' = TRUE
  /\ cancelScheduled' = (cancelScheduled \/ pcA # "none")
  /\ UNCHANGED <<decomposeVars, pcS, result, audio, assembleVars, now,
                 output, scheduled, timedOut, phaseB>>

\* lines 191-220: a job in a non-terminal status; the handler's reads and
\* its one commit are one step
CancelJob ==
  /\ ~CancelRejected(job.status)
  /\ CancelCommit
  /\ UNCHANGED otherVars

Next == Decompose \/ Synthesize \/ Assemble \/ CancelJob



Spec == Init /\ [][Next]_vars

(* ============ synthesize_audio, statement by statement ================= *)
\* contents a notes object can have: empty, whitespace only, the silence
\* tag, a text to speak
NoteTexts == {"", " ", "[SILENCE]", "Hello"}

\* str.strip()
Strip(t) == IF t = " " THEN "" ELSE t

\* what temp_output_{job_id}_{n}.wav can hold
SILENCE_1S == "silence_1s"
SILENCE_TEXT == "silence_text"
SILENCE_5S == "silence_5s"
SILENCE_3S == "silence_3s"

\* the pipeline variables a synthesize_audio execution does not write
synthFrame == <<decomposeVars, revoked, assembleVars, now, output, scheduled,
                historyVars, cleanupVars, restVars>>

\* the job row after decompose_presentation finished (lines 29, 57, 98)
DecomposedJob ==
  update_job_status(
    update_job_slides(
      update_job_status(NewJob, "processing_slides", NULL, NULL,
                        "decomposing"),
      MaxSlides),
    "synthesizing_audio", NULL, NULL, "synthesizing_audio")

\* the task rows after decompose_presentation finished: the decomposition
\* row completed (line 69), one audio_synthesis row per slide with its
\* celery task id (lines 75-87)
DecomposedTasks ==
  <<UpdateRow(UpdateRow(create_job_task("decomposition", 0), "running",
                        NoId), "completed", NoId)>>
  \o [s \in Slides |->
        UpdateRow(create_job_task("audio_synthesis", s), NULL, s)]

\* decompose_presentation has finished for a deck of MaxSlides slides; the
\* worker is about to take the message of one slide.  The voice of the job,
\* the notes of the slide and the state of the module global base_tts (None
\* in a fresh worker, loaded or "FAILED" after an earlier task) are inputs
InitSynth ==
  /\ job = DecomposedJob
  /\ tasks = DecomposedTasks
  /\ pcD = "done"
  /\ num_slides = MaxSlides
  /\ image_paths = MaxSlides
  /\ di = MaxSlides
  /\ pcS = [s \in Slides |-> "queued"]
  /\ result = [s \in Slides |-> "PENDING"]
  /\ revoked = {}
  /\ audio = {}
  /\ pcA = "queued"
  /\ audio_task_ids = Slides
  /\ completed_tasks = {}
  /\ start_time = 0
  /\ now = 0
  /\ output = FALSE
  /\ scheduled = 1
  /\ cancelDone = FALSE
  /\ cancelScheduled = FALSE
  /\ timedOut = FALSE
  /\ phaseB = FALSE
  /\ pcV = "queued"
  /\ synth_slide \in Slides
  /\ use_builtin_speaker \in BOOLEAN
  /\ notes \in NoteTexts
  /\ note_text = ""
  /\ base_tts \in {"None", "loaded", "FAILED"}
  /\ save_path = "none"
  /\ used = {}
  /\ raised = {}
  /\ softAt = "none"
  /\ CleanupIdle
  /\ RestIdle

\* the task is STARTED; lines 118-119 set its row running
AudioBegin ==
  /\ pcV = "queued"
  /\ result' = [result EXCEPT ![synth_slide] = "STARTED"]
  /\ tasks' = update_task_status(tasks, RowByCeleryId(tasks, synth_slide),
                                 "running", NoId)
  /\ pcS' = [pcS EXCEPT ![synth_slide] = "running"]
  /\ pcV' = "voice"
  /\ UNCHANGED <<job, audio, synthFrame, synth_slide, use_builtin_speaker,
                 notes, note_text, base_tts, save_path, used, raised,
                 softAt>>

\* lines 120-141: the job is found; the speaker embedding of a builtin
\* voice is loaded, or the reference audio of an uploaded voice is read
\* from the object store
AudioLoadVoice ==
  /\ pcV = "voice"
  /\ used' = IF use_builtin_speaker THEN used ELSE used \cup {"reference"}
  /\ pcV' = "get_notes"
  /\ UNCHANGED <<job, tasks, pcS, result, audio, synthFrame, synth_slide,
                 use_builtin_speaker, notes, note_text, base_tts, save_path,
                 raised, softAt>>

\* line 133 or 137 raises
AudioLoadVoiceRaises ==
  /\ pcV = "voice"
  /\ raised' = raised \cup {"voice"}
  /\ pcV' = "except"
  /\ UNCHANGED <<job, tasks, pcS, result, audio, synthFrame, synth_slide,
                 use_builtin_speaker, notes, note_text, base_tts, save_path,
                 used, softAt>>

\* lines 144-154: the notes are read; empty or whitespace-only notes become
\* the tag [SILENCE]
AudioGetNotes ==
  /\ pcV = "get_notes"
  /\ note_text' = IF Strip(notes) = "" THEN "[SILENCE]" ELSE notes
  /\ pcV' = "reference"
  /\ UNCHANGED <<job, tasks, pcS, result, audio, synthFrame, synth_slide,
                 use_builtin_speaker, notes, base_tts, save_path, used,
                 raised, softAt>>

\* line 145 raises
AudioGetNotesRaises ==
  /\ pcV = "get_notes"
  /\ raised' = raised \cup {"notes"}
  /\ pcV' = "except"
  /\ UNCHANGED <<job, tasks, pcS, result, audio, synthFrame, synth_slide,
                 use_builtin_speaker, notes, note_text, base_tts, save_path,
                 used, softAt>>

\* lines 156-178: for an uploaded voice the reference audio is loaded,
\* trimmed and its tone colour embedding extracted, whatever the notes are
AudioReference ==
  /\ pcV = "reference"
  /\ used' = IF use_builtin_speaker THEN used ELSE used \cup {"reference"}
  /\ pcV' = "synthesize"
  /\ UNCHANGED <<job, tasks, pcS, result, audio, synthFrame, synth_slide,
                 use_builtin_speaker, notes, note_text, base_tts, save_path,
                 raised, softAt>>

\* librosa.load, sf.write or se_extractor.get_se (lines 167-178) raises
AudioReferenceRaises ==
  /\ pcV = "reference"
  /\ ~use_builtin_speaker
  /\ used' = used \cup {"reference"}
  /\ raised' = raised \cup {"get_se"}
  /\ pcV' = "except"
  /\ UNCHANGED <<job, tasks, pcS, result, audio, synthFrame, synth_slide,
                 use_builtin_speaker, notes, note_text, base_tts, save_path,
                 softAt>>

\* line 187
IsSilence(t) == t = "[SILENCE]" \/ Strip(t) = ""

\* lines 187-190: one second of silence is written
AudioSilence ==
  /\ pcV = "synthesize"
  /\ IsSilence(note_text)
  /\ save_path' = SILENCE_1S
  /\ pcV' = "upload"
  /\ UNCHANGED <<job, tasks, pcS, result, audio, synthFrame, synth_slide,
                 use_builtin_speaker, notes, note_text, base_tts, used,
                 raised, softAt>>

\* line 190 raises
AudioSilenceRaises ==
  /\ pcV = "synthesize"
  /\ IsSilence(note_text)
  /\ raised' = raised \cup {"silence"}
  /\ pcV' = "except"
  /\ UNCHANGED <<job, tasks, pcS, result, audio, synthFrame, synth_slide,
                 use_builtin_speaker, notes, note_text, base_tts,
                 save_path, used, softAt>>

\* lines 192-225: inside the try of line 192, MeloTTS is initialized when the
\* global is None; a failure is caught at line 222 and leaves "FAILED"
AudioInitTTS ==
  /\ pcV = "synthesize"
  /\ ~IsSilence(note_text)
  /\ base_tts' \in (IF base_tts = "None" THEN {"loaded", "FAILED"}
                    ELSE {base_tts})
  /\ pcV' = "tts"
  /\ UNCHANGED <<job, tasks, pcS, result, audio, synthFrame, synth_slide,
                 use_builtin_speaker, notes, note_text, save_path, used,
                 raised, softAt>>

\* lines 228-247: tts_to_file wrote the base audio
AudioBaseTTS ==
  /\ pcV = "tts"
  /\ base_tts = "loaded"
  /\ used' = used \cup {"tts"}
  /\ pcV' = "convert"
  /\ UNCHANGED <<job, tasks, pcS, result, audio, synthFrame, synth_slide,
                 use_builtin_speaker, notes, note_text, base_tts,
                 save_path, raised, softAt>>

\* lines 236-247 raise: line 273 raises again, line 296 catches
AudioBaseTTSRaises ==
  /\ pcV = "tts"
  /\ base_tts = "loaded"
  /\ used' = used \cup {"tts"}
  /\ raised' = raised \cup {"tts"}
  /\ pcV' = "fallback"
  /\ UNCHANGED <<job, tasks, pcS, result, audio, synthFrame, synth_slide,
                 use_builtin_speaker, notes, note_text, base_tts,
                 save_path, softAt>>

\* lines 275-294: MeloTTS is not available, silence of the estimated length
\* of the text is written
AudioTextSilence ==
  /\ pcV = "tts"
  /\ base_tts = "FAILED"
  /\ save_path' = SILENCE_TEXT
  /\ pcV' = "upload"
  /\ UNCHANGED <<job, tasks, pcS, result, audio, synthFrame, synth_slide,
                 use_builtin_speaker, notes, note_text, base_tts, used,
                 raised, softAt>>

\* line 293 raises: line 296 catches
AudioTextSilenceRaises ==
  /\ pcV = "tts"
  /\ base_tts = "FAILED"
  /\ raised' = raised \cup {"silence_text"}
  /\ pcV' = "fallback"
  /\ UNCHANGED <<job, tasks, pcS, result, audio, synthFrame, synth_slide,
                 use_builtin_speaker, notes, note_text, base_tts,
                 save_path, used, softAt>>

\* lines 250-258: the tone colour converter wrote the cloned voice
AudioConvert ==
  /\ pcV = "convert"
  /\ ~use_builtin_speaker
  /\ used' = used \cup {"convert"}
  /\ save_path' = "converted"
  /\ pcV' = "upload"
  /\ UNCHANGED <<job, tasks, pcS, result, audio, synthFrame, synth_slide,
                 use_builtin_speaker, notes, note_text, base_tts,
                 raised, softAt>>

\* lines 259-263: convert raises, the base audio is copied instead
AudioConvertRaises ==
  /\ pcV = "convert"
  /\ ~use_builtin_speaker
  /\ used' = used \cup {"convert"}
  /\ raised' = raised \cup {"convert"}
  /\ save_path' = "base"
  /\ pcV' = "upload"
  /\ UNCHANGED <<job, tasks, pcS, result, audio, synthFrame, synth_slide,
                 use_builtin_speaker, notes, note_text, base_tts,
                 softAt>>

\* lines 264-267: a builtin speaker keeps the base audio
AudioCopyBase ==
  /\ pcV = "convert"
  /\ use_builtin_speaker
  /\ save_path' = "base"
  /\ pcV' = "upload"
  /\ UNCHANGED <<job, tasks, pcS, result, audio, synthFrame, synth_slide,
                 use_builtin_speaker, notes, note_text, base_tts, used,
                 raised, softAt>>

\* lines 296-300: five seconds of silence are written
AudioFallbackSilence ==
  /\ pcV = "fallback"
  /\ save_path' = SILENCE_5S
  /\ pcV' = "upload"
  /\ UNCHANGED <<job, tasks, pcS, result, audio, synthFrame, synth_slide,
                 use_builtin_speaker, notes, note_text, base_tts, used,
                 raised, softAt>>

\* line 300 raises, inside the handler of line 296
AudioFallbackSilenceRaises ==
  /\ pcV = "fallback"
  /\ raised' = raised \cup {"silence"}
  /\ pcV' = "except"
  /\ UNCHANGED <<job, tasks, pcS, result, audio, synthFrame, synth_slide,
                 use_builtin_speaker, notes, note_text, base_tts,
                 save_path, used, softAt>>

\* lines 303-311: the file is uploaded to {job_id}/audio/slide_{n}.wav
AudioUpload ==
  /\ pcV = "upload"
  /\ audio' = audio \cup {synth_slide}
  /\ pcV' = "complete"
  /\ UNCHANGED <<job, tasks, pcS, result, synthFrame, synth_slide,
                 use_builtin_speaker, notes, note_text, base_tts, save_path,
                 used, raised, softAt>>

\* lines 305-311 raise
AudioUploadRaises ==
  /\ pcV = "upload"
  /\ raised' = raised \cup {"upload"}
  /\ pcV' = "except"
  /\ UNCHANGED <<job, tasks, pcS, result, audio, synthFrame, synth_slide,
                 use_builtin_speaker, notes, note_text, base_tts,
                 save_path, used, softAt>>

\* lines 314-317: the row is completed and the task returns
AudioComplete ==
  /\ pcV = "complete"
  /\ tasks' = update_task_status(tasks, RowByCeleryId(tasks, synth_slide),
                                 "completed", NoId)
  /\ result' = [result EXCEPT ![synth_slide] = "SUCCESS"]
  /\ pcS' = [pcS EXCEPT ![synth_slide] = "done"]
  /\ pcV' = "done"
  /\ UNCHANGED <<job, audio, synthFrame, synth_slide, use_builtin_speaker,
                 notes, note_text, base_tts, save_path, used, raised,
                 softAt>>

\* lines 345-348
AudioExceptTask ==
  /\ pcV = "except"
  /\ tasks' = update_task_status(tasks, RowByCeleryId(tasks, synth_slide),
                                 "failed", NoId)
  /\ pcV' = "except_job"
  /\ UNCHANGED <<job, pcS, result, audio, synthFrame, synth_slide,
                 use_builtin_speaker, notes, note_text, base_tts, save_path,
                 used, raised, softAt>>

\* lines 349-352: the job is failed with an error text, the exception is
\* raised again
AudioExceptJob ==
  /\ pcV = "except_job"
  /\ job' = update_job_status(job, "failed", NULL, SYNTH_MSG, NULL)
  /\ result' = [result EXCEPT ![synth_slide] = "FAILURE"]
  /\ pcS' = [pcS EXCEPT ![synth_slide] = "done"]
  /\ pcV' = "done"
  /\ UNCHANGED <<tasks, audio, synthFrame, synth_slide, use_builtin_speaker,
                 notes, note_text, base_tts, save_path, used, raised,
                 softAt>>

\* The soft time limit (soft_time_limit=TTS_SOFT_TIME_LIMIT) raises
\* SoftTimeLimitExceeded, an Exception, in the statement that is running;
\* it is sent once.
\* During the initialization of MeloTTS: line 222 catches it
AudioSoftLimitInit ==
  /\ softAt = "none"
  /\ pcV = "synthesize"
  /\ ~IsSilence(note_text)
  /\ base_tts = "None"
  /\ softAt' = pcV
  /\ base_tts' = "FAILED"
  /\ pcV' = "tts"
  /\ UNCHANGED <<job, tasks, pcS, result, audio, synthFrame, synth_slide,
                 use_builtin_speaker, notes, note_text, save_path, used,
                 raised>>

\* During lines 228-294, outside convert: line 296 catches it
AudioSoftLimitInner ==
  /\ softAt = "none"
  /\ \/ pcV = "tts"
     \/ pcV = "convert" /\ use_builtin_speaker
  /\ softAt' = pcV
  /\ pcV' = "fallback"
  /\ UNCHANGED <<job, tasks, pcS, result, audio, synthFrame, synth_slide,
                 use_builtin_speaker, notes, note_text, base_tts, save_path,
                 used, raised>>

\* During tone_color_converter.convert: line 259 catches it, the base audio
\* is copied
AudioSoftLimitConvert ==
  /\ softAt = "none"
  /\ pcV = "convert"
  /\ ~use_builtin_speaker
  /\ softAt' = pcV
  /\ used' = used \cup {"convert"}
  /\ save_path' = "base"
  /\ pcV' = "upload"
  /\ UNCHANGED <<job, tasks, pcS, result, audio, synthFrame, synth_slide,
                 use_builtin_speaker, notes, note_text, base_tts, raised>>

\* Outside the try of lines 192-301 (or inside its handler, lines 296-300):
\* the handler of line 319 is entered
AudioSoftLimitOuter ==
  /\ softAt = "none"
  /\ \/ pcV \in {"voice", "get_notes", "reference", "fallback", "upload",
                 "complete"}
     \/ pcV = "synthesize" /\ IsSilence(note_text)
  /\ softAt' = pcV
  /\ pcV' = "soft"
  /\ UNCHANGED <<job, tasks, pcS, result, audio, synthFrame, synth_slide,
                 use_builtin_speaker, notes, note_text, base_tts, save_path,
                 used, raised>>

\* lines 319-343: three seconds of silence are written to the local file;
\* line 329 reads job.s3_uuid, an attribute no job row has, and line 331
\* calls upload_file without its length argument: the handler of line 341
\* raises SoftTimeLimitExceeded out of the task.  Nothing is uploaded, no
\* row is written
AudioSoftHandler ==
  /\ pcV = "soft"
  /\ save_path' = SILENCE_3S
  /\ result' = [result EXCEPT ![synth_slide] = "FAILURE"]
  /\ pcS' = [pcS EXCEPT ![synth_slide] = "done"]
  /\ pcV' = "done"
  /\ UNCHANGED <<job, tasks, audio, synthFrame, synth_slide,
                 use_builtin_speaker, notes, note_text, base_tts, used,
                 raised, softAt>>

\* Inside the handler of lines 345-352: the exception leaves the task
AudioSoftLimitInHandler ==
  /\ softAt = "none"
  /\ pcV \in {"except", "except_job"}
  /\ softAt' = pcV
  /\ result' = [result EXCEPT ![synth_slide] = "FAILURE"]
  /\ pcS' = [pcS EXCEPT ![synth_slide] = "done"]
  /\ pcV' = "done"
  /\ UNCHANGED <<job, tasks, audio, synthFrame, synth_slide,
                 use_builtin_speaker, notes, note_text, base_tts, save_path,
                 used, raised>>

NextSynth ==
  \/ AudioBegin
  \/ AudioLoadVoice
  \/ AudioLoadVoiceRaises
  \/ AudioGetNotes
  \/ AudioGetNotesRaises
  \/ AudioReference
  \/ AudioReferenceRaises
  \/ AudioSilence
  \/ AudioSilenceRaises
  \/ AudioInitTTS
  \/ AudioBaseTTS
  \/ AudioBaseTTSRaises
  \/ AudioTextSilence
  \/ AudioTextSilenceRaises
  \/ AudioConvert
  \/ AudioConvertRaises
  \/ AudioCopyBase
  \/ AudioFallbackSilence
  \/ AudioFallbackSilenceRaises
  \/ AudioUpload
  \/ AudioUploadRaises
  \/ AudioComplete
  \/ AudioExceptTask
  \/ AudioExceptJob
  \/ AudioSoftLimitInit
  \/ AudioSoftLimitInner
  \/ AudioSoftLimitConvert
  \/ AudioSoftLimitOuter
  \/ AudioSoftHandler
  \/ AudioSoftLimitInHandler

SpecSynth == InitSynth /\ [][NextSynth]_vars

(* ===================== cleanup of old jobs ============================= *)
\* largest age of a job and largest days_old of a request, in days
MaxAge == 2

JobStatuses ==
  {"pending", "processing_slides", "synthesizing_audio", "assembling_video",
   "completed", "failed", "cancelled"}
\* the statuses of a job that is still processed (cleanup_old_jobs docstring)
ActiveStatuses ==
  {"pending", "processing_slides", "synthesizing_audio", "assembling_video"}
\* ['completed', 'failed']
DEFAULT_STATUS_FILTER == {"completed", "failed"}

\* status filters a request can carry; {} is a missing or empty one
StatusFilters ==
  {{}, {"completed", "failed"}, {"cancelled"}, {"pending"},
   {"failed", "synthesizing_audio"}}

\* the objects a job in a status can have: the deck /ingest/{uuid}.pptx,
\* the notes {job_id}/notes/, the slide images {job_id}/images/, the audio
\* {job_id}/audio/, the video /output/{job_id}.mp4
StoreOf(status) ==
  CASE status = "pending" -> {{"pptx"}}
    [] status = "processing_slides" ->
         {{"pptx"}, {"pptx", "notes", "images"}}
    [] status = "synthesizing_audio" ->
         {{"pptx", "notes", "images"}, {"pptx", "notes", "images", "audio"}}
    [] status = "assembling_video" ->
         {{"pptx", "notes", "images", "audio"},
          {"pptx", "notes", "images", "audio", "video"}}
    [] status = "completed" ->
         {{"pptx", "notes", "images", "audio", "video"}}
    [] OTHER ->
         {{"pptx"}, {"pptx", "notes", "images"},
          {"pptx", "notes", "images", "audio"}}

\* a job in any status and of any age, with the objects of its status; a
\* cleanup request arrives at the API (POST /execute) or at the CLI
\* (--execute) with its days_old and status filter
InitCleanup ==
  /\ \E st \in JobStatuses :
       /\ job = [NewJob EXCEPT
                   !.status = st,
                   !.s3_video_path =
                      IF st = "completed" THEN VIDEO_PATH ELSE NULL]
       /\ store \in StoreOf(st)
  /\ tasks = <<>>
  /\ pcD = "done"
  /\ num_slides = 0
  /\ image_paths = 0
  /\ di = 0
  /\ pcS = [s \in Slides |-> "none"]
  /\ result = [s \in Slides |-> "PENDING"]
  /\ revoked = {}
  /\ audio = {}
  /\ pcA = "none"
  /\ audio_task_ids = {}
  /\ completed_tasks = {}
  /\ start_time = 0
  /\ now = 0
  /\ output = FALSE
  /\ scheduled = 0
  /\ cancelDone = FALSE
  /\ cancelScheduled = FALSE
  /\ timedOut = FALSE
  /\ phaseB = FALSE
  /\ SynthIdle
  /\ RestIdle
  /\ pcC = "request"
  /\ entry \in {"api", "cli"}
  /\ req_days_old \in 0..MaxAge
  /\ req_status_filter \in StatusFilters
  /\ status_filter = {}
  /\ age_days \in 0..MaxAge
  /\ row_present = TRUE
  /\ faults = {}
  /\ cleanup_stats = [jobs_deleted |-> 0, errors |-> {}]
  /\ jobs_count = NoPreview

\* what a cleanup request does not write
cleanupFrame == <<tasks, decomposeVars, pcS, result, revoked, audio,
                  assembleVars, now, output, scheduled, historyVars,
                  synthVars, restVars, job, entry, req_days_old,
                  req_status_filter, age_days>>

\* the status filter of a preview: GET /preview passes None for a missing
\* or empty status_filter (cleanup.py lines 36-38), which
\* get_cleanup_preview replaces by the default (lines 259-260); the CLI
\* passes its list as it is (cleanup_jobs.py lines 45-52)
PreviewFilterNoDefault(e, f) == f

PreviewFilter(e, f) ==
  IF e = "api" /\ f = {} THEN DEFAULT_STATUS_FILTER ELSE f

\* cleanup.py lines 64-76: days_old below 1 is refused; a missing or empty
\* status_filter becomes the default, any other list is passed on as it is
CleanupExecuteApi ==
  /\ pcC = "request"
  /\ entry = "api"
  /\ IF req_days_old < 1
       THEN /\ pcC' = "rejected"
            /\ UNCHANGED status_filter
       ELSE /\ status_filter' = IF req_status_filter = {}
                                  THEN DEFAULT_STATUS_FILTER
                                  ELSE req_status_filter
            /\ pcC' = "select"
  /\ UNCHANGED <<cleanupFrame, jobs_count, row_present, store, faults, cleanup_stats>>

\* cleanup_jobs.py lines 35-72: --days and the statuses of --status are
\* passed on as they are
CleanupExecuteCli ==
  /\ pcC = "request"
  /\ entry = "cli"
  /\ status_filter' = req_status_filter
  /\ pcC' = "select"
  /\ UNCHANGED <<cleanupFrame, jobs_count, row_present, store, faults, cleanup_stats>>

\* cleanup_service.py lines 43-46: created_at < cutoff_date and
\* status.in_(status_filter)
Selected(st, age, days_old, filter) == age > days_old /\ st \in filter

\* lines 32-48: the query
CleanupSelect ==
  /\ pcC = "select"
  /\ pcC' = IF row_present /\ Selected(job.status, age_days, req_days_old,
                                      status_filter)
              THEN "pptx" ELSE "done"
  /\ UNCHANGED <<cleanupFrame, jobs_count, status_filter, row_present, store, faults,
                 cleanup_stats>>

\* cleanup_service.py lines 248-292: the preview runs the query of
\* cleanup_old_jobs and counts; it writes nothing
CleanupPreview ==
  /\ pcC = "request"
  /\ jobs_count = NoPreview
  /\ jobs_count' =
       IF row_present /\ Selected(job.status, age_days, req_days_old,
                                  PreviewFilter(entry, req_status_filter))
         THEN 1 ELSE 0
  /\ UNCHANGED <<cleanupFrame, pcC, status_filter, row_present, store,
                 faults, cleanup_stats>>

\* the order of steps 1-5 of _cleanup_single_job
NextStep(k) ==
  CASE k = "pptx" -> "video"
    [] k = "video" -> "audio"
    [] k = "audio" -> "notes"
    [] k = "notes" -> "uuid"
    [] k = "uuid" -> "row"

\* lines 149-155 and 178-212: the deck, and the video when s3_video_path is
\* set, are removed
CleanupDeleteFile ==
  /\ pcC \in {"pptx", "video"}
  /\ store' = IF pcC = "video" /\ job.s3_video_path = NULL
                THEN store ELSE store \ {pcC}
  /\ pcC' = NextStep(pcC)
  /\ UNCHANGED <<cleanupFrame, jobs_count, status_filter, row_present, faults,
                 cleanup_stats>>

\* lines 214-216: stat_object or remove_object raises; the error is logged
\* and 0 is returned
CleanupDeleteFileFails ==
  /\ pcC \in {"pptx", "video"}
  /\ pcC \in store
  /\ pcC = "video" => job.s3_video_path # NULL
  /\ faults' = faults \cup {pcC}
  /\ pcC' = NextStep(pcC)
  /\ UNCHANGED <<cleanupFrame, jobs_count, status_filter, row_present, store,
                 cleanup_stats>>

\* lines 157-169 and 218-240: the objects under {job_id}/audio/ and
\* {job_id}/notes/ are removed, then those under {uuid}/images/ and {uuid}/,
\* where the pipeline stores nothing
CleanupDeletePrefix ==
  /\ pcC \in {"audio", "notes", "uuid"}
  /\ store' = store \ {pcC}
  /\ pcC' = NextStep(pcC)
  /\ UNCHANGED <<cleanupFrame, jobs_count, status_filter, row_present, faults,
                 cleanup_stats>>

\* lines 239-244: list_objects or remove_object raises; the error is logged
CleanupDeletePrefixFails ==
  /\ pcC \in {"audio", "notes"}
  /\ pcC \in store
  /\ faults' = faults \cup {pcC}
  /\ pcC' = NextStep(pcC)
  /\ UNCHANGED <<cleanupFrame, jobs_count, status_filter, row_present, store,
                 cleanup_stats>>

\* lines 171-175 and 50-58: the row is deleted and counted
CleanupDeleteRow ==
  /\ pcC = "row"
  /\ row_present' = FALSE
  /\ cleanup_stats' = [cleanup_stats EXCEPT !.jobs_deleted = @ + 1]
  /\ pcC' = "done"
  /\ UNCHANGED <<cleanupFrame, jobs_count, status_filter, store, faults>>

\* lines 172-173 raise: lines 60-63 add "Error cleaning up job ..." to the
\* errors
CleanupDeleteRowRaises ==
  /\ pcC = "row"
  /\ cleanup_stats' =
       [cleanup_stats EXCEPT !.errors = @ \cup {"Error cleaning up job"}]
  /\ pcC' = "done"
  /\ UNCHANGED <<cleanupFrame, jobs_count, status_filter, row_present, store, faults>>

NextCleanup ==
  \/ CleanupPreview
  \/ CleanupExecuteApi
  \/ CleanupExecuteCli
  \/ CleanupSelect
  \/ CleanupDeleteFile
  \/ CleanupDeleteFileFails
  \/ CleanupDeletePrefix
  \/ CleanupDeletePrefixFails
  \/ CleanupDeleteRow
  \/ CleanupDeleteRowRaises

SpecCleanup == InitCleanup /\ [][NextCleanup]_vars

(* ------------------ update_job_status on any table --------------------- *)
pipelineVars == <<job, tasks, decomposeVars, pcS, result, revoked, audio,
                  assembleVars, now, output, scheduled, historyVars>>

\* the values an optional argument of update_job_status takes: None, the
\* empty string, a text
OptionalArgs == {NULL, "", "text"}
\* the columns of a stored row
StoredTexts == {NULL, "text", "old"}
CrudStatuses == {"pending", "completed", "failed"}

CrudRows ==
  [status : CrudStatuses, s3_video_path : StoredTexts,
   error_message : StoredTexts, current_stage : {NULL, "old"},
   num_slides : {NoSlides}]

InitCrud ==
  /\ PipelineInit
  /\ SynthIdle
  /\ CleanupIdle
  /\ pcU = 0
  /\ crud_table \in {<<>>} \cup {<<r>> : r \in CrudRows}
  /\ crud_args \in [status : CrudStatuses, video_path : OptionalArgs,
                    error_message : OptionalArgs,
                    current_stage : {NULL, "text"}]
  /\ crud_ret = <<>>
  /\ RowIdle
  /\ ApiIdle
  /\ BrokerIdle
  /\ ParseIdle
  /\ RedeliverIdle
  /\ MoreIdle

\* update_job_status with its lookup: a missing row is left missing and
\* None is returned
UpdateJobStatusUpsert(table, a) ==
  IF table = <<>>
  THEN <<update_job_status(NewJob, a.status, a.video_path, a.error_message,
                           a.current_stage)>>
  ELSE <<update_job_status(table[1], a.status, a.video_path,
                           a.error_message, a.current_stage)>>

UpdateJobStatus(table, a) ==
  IF table = <<>>
  THEN <<>>
  ELSE <<update_job_status(table[1], a.status, a.video_path,
                           a.error_message, a.current_stage)>>

\* the first call
CrudUpdateOnce ==
  /\ pcU = 0
  /\ crud_table' = UpdateJobStatus(crud_table, crud_args)
  /\ crud_ret' = crud_table'
  /\ pcU' = 1
  /\ UNCHANGED <<pipelineVars, synthVars, cleanupVars, rowVars, apiVars,
               brokerVars, parseVars, redeliverVars, moreVars, crud_args>>

\* the same call again
CrudUpdateTwice ==
  /\ pcU = 1
  /\ crud_table' = UpdateJobStatus(crud_table, crud_args)
  /\ crud_ret' = crud_table'
  /\ pcU' = 2
  /\ UNCHANGED <<pipelineVars, synthVars, cleanupVars, rowVars, apiVars,
               brokerVars, parseVars, redeliverVars, moreVars, crud_args>>

NextCrud ==
  \/ CrudUpdateOnce
  \/ CrudUpdateTwice

SpecCrud == InitCrud /\ [][NextCrud]_vars

(* ------------------- the writes to one job_tasks row ------------------- *)
\* the latest time of the model
MaxClock == 4

InitRow ==
  /\ PipelineInit
  /\ SynthIdle
  /\ CleanupIdle
  /\ CrudIdle
  /\ ApiIdle
  /\ BrokerIdle
  /\ ParseIdle
  /\ RedeliverIdle
  /\ MoreIdle
  /\ task_row = NewTaskRow
  /\ utcnow = 1

rowFrame == <<pipelineVars, synthVars, cleanupVars, crudVars, apiVars,
              brokerVars, parseVars, redeliverVars, moreVars>>

\* the row update of update_task_status at time t
UpdateRowAt(row, status, set_celery_task_id, t) ==
  [row EXCEPT
     !.status = IF status # NULL THEN status ELSE @,
     !.started_at =
        IF status = "running" /\ row.started_at = NoTime THEN t ELSE @,
     !.completed_at = IF status \in TerminalTask THEN t ELSE @,
     !.celery_task_id =
        IF set_celery_task_id # NoId THEN set_celery_task_id ELSE @]

\* decompose_presentation, line 87: the task id is written to the row
RowSetTaskId ==
  /\ utcnow # 0
  /\ task_row.celery_task_id = NoId
  /\ task_row' = UpdateRowAt(task_row, NULL, 1, utcnow)
  /\ UNCHANGED <<rowFrame, utcnow>>

\* synthesize_audio, line 118: an execution of the task starts; the broker
\* may deliver the message again after an earlier execution ended
RowRunning ==
  /\ utcnow # 0
  /\ task_row.celery_task_id # NoId
  /\ task_row' = UpdateRowAt(task_row, "running", NoId, utcnow)
  /\ UNCHANGED <<rowFrame, utcnow>>

\* synthesize_audio, lines 314, 333 and 347: an execution that started ends
RowTerminal ==
  /\ utcnow # 0
  /\ task_row.celery_task_id # NoId
  /\ task_row.started_at # NoTime
  /\ \E status \in {"completed", "failed"} :
       task_row' = UpdateRowAt(task_row, status, NoId, utcnow)
  /\ UNCHANGED <<rowFrame, utcnow>>

\* cancel_job, lines 203-211: the write to a row that has a task id and is
\* pending or running
RowCancel ==
  /\ utcnow # 0
  /\ task_row.celery_task_id # NoId
  /\ task_row.status \in {"pending", "running"}
  /\ task_row' = [task_row EXCEPT !.status = "cancelled",
                                  !.completed_at = utcnow]
  /\ UNCHANGED <<rowFrame, utcnow>>

RowTick ==
  /\ utcnow # 0
  /\ utcnow < MaxClock
  /\ utcnow' = utcnow + 1
  /\ UNCHANGED <<rowFrame, task_row>>

NextRow ==
  \/ RowSetTaskId
  \/ RowRunning
  \/ RowTerminal
  \/ RowCancel
  \/ RowTick

SpecRow == InitRow /\ [][NextRow]_vars

(* -------------------------- create_presentation ------------------------ *)
\* the requests of the model
MaxRequests == 3

PPTX ==
  "application/vnd.openxmlformats-officedocument.presentationml.presentation"
ContentTypes == {PPTX, "application/pdf"}

InitApi ==
  /\ PipelineInit
  /\ SynthIdle
  /\ CleanupIdle
  /\ CrudIdle
  /\ RowIdle
  /\ BrokerIdle
  /\ ParseIdle
  /\ RedeliverIdle
  /\ MoreIdle
  /\ pcP = "ready"
  /\ content_type = "none"
  /\ api_rows = <<>>
  /\ api_sent = <<>>
  /\ ingest = 0
  /\ response = 0
  /\ rows_before = <<>>
  /\ sent_before = <<>>
  /\ requests = 0

apiFrame == <<pipelineVars, synthVars, cleanupVars, crudVars, rowVars,
              brokerVars, parseVars, redeliverVars, moreVars>>

\* a request arrives
ApiRequest ==
  /\ pcP = "ready"
  /\ requests < MaxRequests
  /\ requests' = requests + 1
  /\ content_type' \in ContentTypes
  /\ rows_before' = api_rows
  /\ sent_before' = api_sent
  /\ response' = 0
  /\ pcP' = "check"
  /\ UNCHANGED <<apiFrame, api_rows, api_sent, ingest>>

\* line 19: the test of file.content_type
ContentTypeAny(ct) == TRUE

ContentTypeOk(ct) == ct = PPTX

\* lines 19-20: HTTPException 400
ApiReject ==
  /\ pcP = "check"
  /\ ~ContentTypeOk(content_type)
  /\ response' = 400
  /\ pcP' = "done"
  /\ UNCHANGED <<apiFrame, content_type, api_rows, api_sent, ingest,
                 rows_before, sent_before, requests>>

\* lines 23-31: the deck is uploaded to the ingest bucket
ApiUpload ==
  /\ pcP = "check"
  /\ ContentTypeOk(content_type)
  /\ ingest' = ingest + 1
  /\ pcP' = "uploaded"
  /\ UNCHANGED <<apiFrame, content_type, api_rows, api_sent, response,
                 rows_before, sent_before, requests>>

\* lines 26-31: upload_file raises
ApiUploadRaises ==
  /\ pcP = "check"
  /\ ContentTypeOk(content_type)
  /\ response' = 500
  /\ pcP' = "done"
  /\ UNCHANGED <<apiFrame, content_type, api_rows, api_sent, ingest,
                 rows_before, sent_before, requests>>

\* lines 34-35: create_presentation_job commits the row
ApiCreateJob ==
  /\ pcP = "uploaded"
  /\ api_rows' = Append(api_rows, NewJob)
  /\ pcP' = "created"
  /\ UNCHANGED <<apiFrame, content_type, api_sent, ingest, response,
                 rows_before, sent_before, requests>>

\* lines 38-40: send_task with args=[db_job.id], then the row is returned
ApiSendTask ==
  /\ pcP = "created"
  /\ api_sent' = Append(api_sent, Len(api_rows))
  /\ response' = 200
  /\ pcP' = "done"
  /\ UNCHANGED <<apiFrame, content_type, api_rows, ingest, rows_before,
                 sent_before, requests>>

\* line 38: send_task raises
ApiSendTaskRaises ==
  /\ pcP = "created"
  /\ response' = 500
  /\ pcP' = "done"
  /\ UNCHANGED <<apiFrame, content_type, api_rows, api_sent, ingest,
                 rows_before, sent_before, requests>>

\* the response is sent; the next request may arrive
ApiRespond ==
  /\ pcP = "done"
  /\ pcP' = "ready"
  /\ UNCHANGED <<apiFrame, content_type, api_rows, api_sent, ingest,
                 response, rows_before, sent_before, requests>>

NextApi ==
  \/ ApiRequest
  \/ ApiReject
  \/ ApiUpload
  \/ ApiUploadRaises
  \/ ApiCreateJob
  \/ ApiSendTask
  \/ ApiSendTaskRaises
  \/ ApiRespond

SpecApi == InitApi /\ [][NextApi]_vars

(* ----------------- a task execution as the broker sees it --------------- *)
\* assemble_video_with_deps stands for an execution that ends in the barrier,
\* assemble_video for one that reaches the call of line 162
WorkerTasks ==
  {"decompose_presentation", "assemble_video_with_deps", "assemble_video",
   "synthesize_audio"}

\* the tasks that write running to a task row when they start
\* (tasks_cpu.py 25, tasks_gpu.py 118)
RowTasks == {"decompose_presentation", "synthesize_audio"}

\* the status a job has when the task starts
StatusAtStart(task) ==
  IF task = "decompose_presentation"
  THEN {"pending", "cancelled"}
  ELSE {"processing_slides", "synthesizing_audio", "failed", "cancelled"}

\* the status the body of the task writes to the job row before it returns
StatusAtReturn(task, status) ==
  CASE task = "decompose_presentation" -> "synthesizing_audio"
    [] task = "assemble_video" -> "completed"
    [] OTHER -> status

\* the statuses the job row has when a statement of the body raises
StatusAtRaise(task, status) ==
  CASE task = "decompose_presentation" -> {"processing_slides"}
    [] task = "assemble_video" -> {status, "assembling_video"}
    [] OTHER -> {status}

InitBroker ==
  /\ PipelineInit
  /\ SynthIdle
  /\ CleanupIdle
  /\ CrudIdle
  /\ RowIdle
  /\ ApiIdle
  /\ ParseIdle
  /\ RedeliverIdle
  /\ MoreIdle
  /\ bk_task \in WorkerTasks
  /\ bk_pc = "queued"
  /\ bk_job_status \in StatusAtStart(bk_task)
  /\ bk_row_status \in {"pending", "cancelled"}
  /\ bk_raised = "none"
  /\ bk_exc = FALSE
  /\ bk_state = "PENDING"

brokerFrame == <<pipelineVars, synthVars, cleanupVars, crudVars, rowVars,
                 apiVars, parseVars, redeliverVars, moreVars, bk_task>>

\* task_track_started: the worker reports the start and enters the try block
BrokerStart ==
  /\ bk_pc = "queued"
  /\ bk_state' = "STARTED"
  /\ bk_row_status' = IF bk_task \in RowTasks THEN "running" ELSE bk_row_status
  /\ bk_pc' = "body"
  /\ UNCHANGED <<brokerFrame, bk_job_status, bk_raised, bk_exc>>

\* the try block runs to its return
BrokerBodyReturns ==
  /\ bk_pc = "body"
  /\ bk_job_status' = StatusAtReturn(bk_task, bk_job_status)
  /\ bk_row_status' =
       IF bk_task \in RowTasks THEN "completed" ELSE bk_row_status
  /\ bk_pc' = "finally"
  /\ UNCHANGED <<brokerFrame, bk_raised, bk_exc, bk_state>>

\* a statement of the try block raises an Exception
BrokerBodyRaises ==
  /\ bk_pc = "body"
  /\ bk_job_status' \in StatusAtRaise(bk_task, bk_job_status)
  /\ bk_raised' = "Exception"
  /\ bk_exc' = TRUE
  /\ bk_pc' = "except"
  /\ UNCHANGED <<brokerFrame, bk_row_status, bk_state>>

\* synthesize_audio: SoftTimeLimitExceeded is raised in the try block
BrokerSoftLimit ==
  /\ bk_pc = "body"
  /\ bk_task = "synthesize_audio"
  /\ bk_raised' = "SoftTimeLimitExceeded"
  /\ bk_exc' = TRUE
  /\ bk_pc' = "soft"
  /\ UNCHANGED <<brokerFrame, bk_job_status, bk_row_status, bk_state>>

\* synthesize_audio, lines 319-340: the placeholder is stored, the row is
\* written completed and the handler returns
BrokerSoftHandlerReturns ==
  /\ bk_pc = "soft"
  /\ bk_row_status' = "completed"
  /\ bk_exc' = FALSE
  /\ bk_pc' = "finally"
  /\ UNCHANGED <<brokerFrame, bk_job_status, bk_raised, bk_state>>

\* synthesize_audio, lines 341-343: the placeholder fails and the handler
\* raises SoftTimeLimitExceeded, which no other handler of the task takes
BrokerSoftHandlerRaises ==
  /\ bk_pc = "soft"
  /\ bk_exc' = TRUE
  /\ bk_pc' = "finally"
  /\ UNCHANGED <<brokerFrame, bk_job_status, bk_row_status, bk_raised,
                 bk_state>>

\* decompose_presentation, lines 100-102: no raise
BrokerDecomposeHandler ==
  /\ bk_pc = "except"
  /\ bk_task = "decompose_presentation"
  /\ bk_job_status' = "failed"
  /\ bk_exc' = FALSE
  /\ bk_pc' = "finally"
  /\ UNCHANGED <<brokerFrame, bk_row_status, bk_raised, bk_state>>

\* assemble_video_with_deps, lines 164-167: the raise of line 167
BrokerDepsHandler ==
  /\ bk_pc = "except"
  /\ bk_task = "assemble_video_with_deps"
  /\ bk_job_status' = "failed"
  /\ bk_exc' = TRUE
  /\ bk_pc' = "finally"
  /\ UNCHANGED <<brokerFrame, bk_row_status, bk_raised, bk_state>>

\* assemble_video, lines 283-285: no raise; assemble_video_with_deps, which
\* called it, gets None and returns it
BrokerAssembleHandler ==
  /\ bk_pc = "except"
  /\ bk_task = "assemble_video"
  /\ bk_job_status' = "failed"
  /\ bk_exc' = FALSE
  /\ bk_pc' = "finally"
  /\ UNCHANGED <<brokerFrame, bk_row_status, bk_raised, bk_state>>

\* synthesize_audio, lines 345-352: the raise of line 352
BrokerSynthHandler ==
  /\ bk_pc = "except"
  /\ bk_task = "synthesize_audio"
  /\ bk_row_status' = "failed"
  /\ bk_job_status' = "failed"
  /\ bk_exc' = TRUE
  /\ bk_pc' = "finally"
  /\ UNCHANGED <<brokerFrame, bk_raised, bk_state>>

\* the finally block closes the session; the worker stores the outcome of
\* the call: FAILURE when it raised, SUCCESS when it returned
BrokerRecord ==
  /\ bk_pc = "finally"
  /\ bk_state' = IF bk_exc THEN "FAILURE" ELSE "SUCCESS"
  /\ bk_pc' = "done"
  /\ UNCHANGED <<brokerFrame, bk_job_status, bk_row_status, bk_raised,
                 bk_exc>>

NextBroker ==
  \/ BrokerStart
  \/ BrokerBodyReturns
  \/ BrokerBodyRaises
  \/ BrokerSoftLimit
  \/ BrokerSoftHandlerReturns
  \/ BrokerSoftHandlerRaises
  \/ BrokerDecomposeHandler
  \/ BrokerDepsHandler
  \/ BrokerAssembleHandler
  \/ BrokerSynthHandler
  \/ BrokerRecord

SpecBroker == InitBroker /\ [][NextBroker]_vars

(* ------------------ parse_note_text_tags: the speed --------------------- *)
\* longest value of a directive made of digits, dots and signs
MaxToken == 3
\* speeds are counted in units of 1/Scale
Scale == 10 ^ MaxToken

Digits == {"0", "1", "2", "5"}
\* the characters of the values drawn: digits, the dot, a sign
ValueChars == Digits \cup {".", "-"}

\* the words drawn as values
ValueWords ==
  {<<"s", "l", "o", "w">>, <<"S", "l", "o", "w">>,
   <<"n", "o", "r", "m", "a", "l">>, <<"f", "a", "s", "t">>,
   <<"F", "A", "S", "T">>, <<"f", "a", "s">>}

\* str.lower() on the letters of the model
LowerChar(c) ==
  CASE c = "S" -> "s"
    [] c = "F" -> "f"
    [] c = "A" -> "a"
    [] c = "T" -> "t"
    [] OTHER -> c

Lower(w) == [i \in 1..Len(w) |-> LowerChar(w[i])]

\* the directive names drawn
TagNames == {"none", "SPEED", "speed", "PITCH"}

InitParse ==
  /\ PipelineInit
  /\ SynthIdle
  /\ CleanupIdle
  /\ CrudIdle
  /\ RowIdle
  /\ ApiIdle
  /\ BrokerIdle
  /\ RedeliverIdle
  /\ MoreIdle
  /\ pcT = "text"
  /\ tag_name \in TagNames
  /\ tag_value \in
       IF tag_name = "none" THEN {<<>>}
       ELSE ValueWords \cup
            UNION {[1..k -> ValueChars] : k \in 1..MaxToken}
  /\ speed = 0

\* \[SPEED: under re.IGNORECASE
IsSpeedTag(name) == name \in {"SPEED", "speed"}

\* the alternatives slow|normal|fast of the group, under re.IGNORECASE
IsSpeedWord(w) ==
  Lower(w) \in {<<"s", "l", "o", "w">>, <<"n", "o", "r", "m", "a", "l">>,
                <<"f", "a", "s", "t">>}

\* the alternative [\d.]+ of the group
IsDigitsAndDots(w) ==
  /\ Len(w) >= 1
  /\ \A i \in 1..Len(w) : w[i] \in Digits \cup {"."}

\* re.search finds the directive
SpeedMatch(name, w) ==
  IsSpeedTag(name) /\ (IsSpeedWord(w) \/ IsDigitsAndDots(w))

DigitValue(c) ==
  CASE c = "0" -> 0
    [] c = "1" -> 1
    [] c = "2" -> 2
    [] c = "5" -> 5

Dots(w) == {i \in 1..Len(w) : w[i] = "."}

\* float(w) does not raise ValueError: digits with at most one dot
FloatParses(w) ==
  /\ Cardinality(Dots(w)) <= 1
  /\ \E i \in 1..Len(w) : w[i] \in Digits

\* the index of the dot; past the end when there is none
DotAt(w) == IF Dots(w) = {} THEN Len(w) + 1 ELSE CHOOSE i \in Dots(w) : TRUE

RECURSIVE FloatUpTo(_, _)
\* the value of the first i characters of w, in units of 1/Scale
FloatUpTo(w, i) ==
  IF i = 0 THEN 0
  ELSE FloatUpTo(w, i - 1) +
       (IF i = DotAt(w) THEN 0
        ELSE IF i < DotAt(w)
             THEN DigitValue(w[i]) * Scale * 10 ^ (DotAt(w) - 1 - i)
             ELSE (DigitValue(w[i]) * Scale) \div 10 ^ (i - DotAt(w)))

\* float(w), in units of 1/Scale
Float(w) == FloatUpTo(w, Len(w))

Min(a, b) == IF a <= b THEN a ELSE b
Max(a, b) == IF a >= b THEN a ELSE b

\* the float is taken as it is
Unclamped(v) == v

\* max(0.5, min(2.0, speed))
Clamp(v) == Max(Scale \div 2, Min(2 * Scale, v))

\* lines 62-77: the speed of a note whose directive is [name:w]
ParsedSpeed(name, w) ==
  IF ~SpeedMatch(name, w) THEN Scale
  ELSE CASE Lower(w) = <<"s", "l", "o", "w">> -> (7 * Scale) \div 10
         [] Lower(w) = <<"f", "a", "s", "t">> -> (13 * Scale) \div 10
         [] Lower(w) = <<"n", "o", "r", "m", "a", "l">> -> Scale
         [] OTHER -> IF FloatParses(w) THEN Clamp(Float(w)) ELSE Scale

parseFrame == <<pipelineVars, synthVars, cleanupVars, crudVars, rowVars,
                apiVars, brokerVars, redeliverVars, moreVars, tag_name,
                tag_value>>

\* parse_note_text_tags is called on the note
ParseNoteTextTags ==
  /\ pcT = "text"
  /\ speed' = ParsedSpeed(tag_name, tag_value)
  /\ pcT' = "parsed"
  /\ UNCHANGED parseFrame

NextParse == ParseNoteTextTags

SpecParse == InitParse /\ [][NextParse]_vars

(* ------------- decompose_presentation, delivered again ----------------- *)
\* the deliveries of one decompose_presentation message
MaxDeliveries == 2

InitRedeliver ==
  /\ PipelineInit
  /\ SynthIdle
  /\ CleanupIdle
  /\ CrudIdle
  /\ RowIdle
  /\ ApiIdle
  /\ BrokerIdle
  /\ ParseIdle
  /\ MoreIdle
  /\ deliveries = 1
  /\ scheduled_once = 0

\* at-least-once delivery: the message of an execution that ended is
\* delivered again, and decompose_presentation runs from line 15
DecomposeRedelivered ==
  /\ pcD = "done"
  /\ deliveries < MaxDeliveries
  /\ deliveries' = deliveries + 1
  /\ scheduled_once' = scheduled
  /\ pcD' = "queued"
  /\ UNCHANGED <<synthVars, cleanupVars, crudVars, rowVars, apiVars,
                 brokerVars, parseVars, moreVars, job, tasks, num_slides,
                 image_paths,
                 di, pcS, result, revoked, audio, assembleVars, now, output,
                 scheduled, historyVars>>

NextRedeliver ==
  \/ Decompose
  \/ DecomposeRedelivered

SpecRedeliver == InitRedeliver /\ [][NextRedeliver]_vars

(* ------------- the barrier under a fair worker (liveness) -------------- *)
\* lines 131-155: the worker process is inside the loop
InLoop == pcA \in {"while", "poll", "sleep"}

\* lines 131-157: the steps of the loop of assemble_video_with_deps. The
\* worker process that runs the task executes them one after the other;
\* time.sleep(10) returns after ten seconds, and AsyncResult(...).ready()
\* returns or raises.
BarrierLoop ==
  \/ BarrierEnter
  \/ BarrierTimeout
  \/ BarrierPoll
  \/ BarrierPollRaises
  \/ BarrierSleep
  \/ BarrierExit

\* the steps of the synthesize tasks when no task is revoked
SynthesizeUnrevoked ==
  \E s \in Slides :
    \/ SynthStart(s)
    \/ SynthUpload(s)
    \/ SynthRaises(s)
    \/ SynthComplete(s)
    \/ SynthExceptTask(s)
    \/ SynthExceptJob(s)
    \/ SynthSoftTimeLimit(s)

\* the pipeline of one job without cancel requests: no task is revoked, so
\* the steps of a revoked task (SynthDiscard, SynthTerminate) are left out
NextBarrier == Decompose \/ SynthesizeUnrevoked \/ Assemble

\* only the loop's own process is assumed to keep running: nothing is assumed
\* of the synthesize tasks, which may never be delivered or never settle
SpecBarrier == Init /\ [][NextBarrier]_vars /\ WF_vars(BarrierLoop)

(* ------------------- cancel_job with its responses ---------------------- *)
\* models.py 31: the primary key of the job's row
JOB_ID == 1

\* the ids a request can name: the job's, and one that no row has
RequestIds == {JOB_ID, JOB_ID + 1}

cancelFrame == <<synthVars, cleanupVars, crudVars, rowVars, apiVars,
                 brokerVars, parseVars, redeliverVars, keyVars, flightVars,
                 tagsVars>>

\* lines 191-193: no row with the id, HTTP 404
CancelNotFound ==
  /\ \E id \in RequestIds \ {JOB_ID} : cancel_id' = id
  /\ cancel_status' = 404
  /\ UNCHANGED <<pipelineVars, cancelFrame>>

\* lines 195-196: the job is in a terminal status, HTTP 400
CancelRefuse ==
  /\ CancelRejected(job.status)
  /\ cancel_id' = JOB_ID
  /\ cancel_status' = 400
  /\ UNCHANGED <<pipelineVars, cancelFrame>>

\* lines 198-225: the job is cancelled, HTTP 200 (one accepted request is
\* followed)
CancelAccept ==
  /\ cancel_status = 0
  /\ ~CancelRejected(job.status)
  /\ cancel_id' = JOB_ID
  /\ cancel_status' = 200
  /\ CancelCommit
  /\ UNCHANGED cancelFrame

\* lines 188-225: requests are followed until one has been refused
CancelRequest ==
  /\ cancel_status \in {0, 200}
  /\ (CancelNotFound \/ CancelRefuse \/ CancelAccept)

\* the pipeline of the job is followed up to the first refused request
PipelineStep ==
  /\ cancel_status \in {0, 200}
  /\ (Decompose \/ Synthesize \/ Assemble)

NextCancel == PipelineStep \/ CancelRequest

SpecCancel == Init /\ [][NextCancel]_vars

(* --------------- the object keys of a slide's audio -------------------- *)
\* presentations.py 23: uuid.uuid4(), shortened; a uuid4 has hyphens and is
\* never the decimal form of a row id
UUIDs == {"3f2a-41c8", "9b07-4e5d", "c1d6-4a90"}

\* presentations.py 23-31, minio_service.py 21: s3_pptx_path of the row,
\* "/ingest/{uuid}.pptx", as directory, stem and extension
PptxPath(uuid) == <<"ingest", uuid, ".pptx">>

\* os.path.splitext(os.path.basename(path))[0]
Stem(path) == path[2]

\* f"slide_{slide_number}.wav"
SlideWav(slide_number) == "slide_" \o ToString(slide_number) \o ".wav"

\* tasks_gpu.py 304, 306-307: bucket and object name of the normal path
SynthKey(job_id, slide_number) ==
  <<"presentations", ToString(job_id) \o "/audio/" \o SlideWav(slide_number)>>

\* tasks_cpu.py 209, 212-216: the object of slide_number among those listed
\* with prefix f"{job_id}/audio/" in bucket presentations
AssembleKey(job_id, slide_number) ==
  <<"presentations", ToString(job_id) \o "/audio/" \o SlideWav(slide_number)>>

\* presentations.py 113-118: the prefix is the stem of the upload's name
DownloadKey(path, slide_number) ==
  <<"presentations", Stem(path) \o "/audio/" \o SlideWav(slide_number)>>

InitKeys ==
  /\ PipelineInit
  /\ SynthIdle
  /\ CleanupIdle
  /\ BaseIdle
  /\ CancelIdle
  /\ FlightIdle
  /\ TagsIdle
  /\ key_pc = "start"
  /\ key_job_id \in 1..MaxRequests
  /\ key_uuid \in UUIDs
  /\ key_slide \in Slides
  /\ key_objects = {}
  /\ key_asm = "none"
  /\ key_dl_slide = 0
  /\ key_dl = 0

keyFrame == <<pipelineVars, synthVars, cleanupVars, crudVars, rowVars, apiVars,
              brokerVars, parseVars, redeliverVars, cancelVars, flightVars,
              tagsVars>>

\* tasks_gpu.py 303-315: the normal path uploads and completes
KeyUpload ==
  /\ key_pc = "start"
  /\ key_objects' = key_objects \cup {SynthKey(key_job_id, key_slide)}
  /\ key_pc' = "completed"
  /\ UNCHANGED <<keyFrame, key_job_id, key_uuid, key_slide, key_asm,
                 key_dl_slide, key_dl>>

\* tasks_gpu.py 319-343: the soft-timeout path. Line 329 reads job.s3_uuid,
\* an attribute the row does not have (models.py 28-41): the read raises, the
\* handler of 341-343 raises SoftTimeLimitExceeded, nothing is uploaded
KeyUploadSoft ==
  /\ key_pc = "start"
  /\ key_pc' = "raised"
  /\ UNCHANGED <<keyFrame, key_job_id, key_uuid, key_slide, key_objects,
                 key_asm, key_dl_slide, key_dl>>

\* tasks_cpu.py 208-228: assemble_video looks for the slide's audio
KeyAssemble ==
  /\ key_pc \in {"completed", "raised"}
  /\ key_asm = "none"
  /\ key_asm' = IF AssembleKey(key_job_id, key_slide) \in key_objects
                THEN "found" ELSE "missing"
  /\ UNCHANGED <<keyFrame, key_pc, key_job_id, key_uuid, key_slide,
                 key_objects, key_dl_slide, key_dl>>

\* presentations.py 107-144: a download request for a slide of the job
KeyDownload ==
  /\ key_pc \in {"completed", "raised"}
  /\ key_dl = 0
  /\ \E n \in 1..(MaxSlides + 1) :
       /\ key_dl_slide' = n
       /\ key_dl' = IF DownloadKey(PptxPath(key_uuid), n)
                         \in key_objects
                    THEN 200 ELSE 404
  /\ UNCHANGED <<keyFrame, key_pc, key_job_id, key_uuid, key_slide,
                 key_objects, key_asm>>

NextKeys == KeyUpload \/ KeyUploadSoft \/ KeyAssemble \/ KeyDownload

SpecKeys == InitKeys /\ [][NextKeys]_vars

(* --------------- the pipeline under fair workers (liveness) ------------- *)
\* every message sent is delivered and every worker keeps running: the
\* decompose task, each synthesize task and the assemble task take their
\* next step when one is enabled. Nothing is assumed of cancel requests.
SpecFair ==
  /\ Init
  /\ [][Next]_vars
  /\ WF_vars(Decompose)
  /\ \A s \in Slides : WF_vars(SynthesizeSlide(s))
  /\ WF_vars(Assemble)

(* -------- cleanup_specific_jobs while the job's tasks are running ------- *)
\* a job whose synthesize task is queued or running, or whose audio is
\* synthesized and whose assemble task is queued or running, with the
\* objects of its status; cleanup_specific_jobs is called with its id
InitFlight ==
  /\ \E st \in {"synthesizing_audio", "assembling_video"} :
       /\ job = [NewJob EXCEPT !.status = st]
       /\ store \in StoreOf(st)
       /\ IF st = "synthesizing_audio"
            THEN /\ fl_synth \in {"queued", "running"}
                 /\ fl_asm = "queued"
                 /\ "audio" \notin store
            ELSE /\ fl_synth = "done"
                 /\ fl_asm \in {"download", "upload"}
                 /\ "video" \notin store
  /\ tasks = <<>>
  /\ pcD = "done"
  /\ num_slides = 0
  /\ image_paths = 0
  /\ di = 0
  /\ pcS = [s \in Slides |-> "none"]
  /\ result = [s \in Slides |-> "PENDING"]
  /\ revoked = {}
  /\ audio = {}
  /\ pcA = "none"
  /\ audio_task_ids = {}
  /\ completed_tasks = {}
  /\ start_time = 0
  /\ now = 0
  /\ output = FALSE
  /\ scheduled = 0
  /\ cancelDone = FALSE
  /\ cancelScheduled = FALSE
  /\ timedOut = FALSE
  /\ phaseB = FALSE
  /\ SynthIdle
  /\ BaseIdle
  /\ CancelIdle
  /\ KeyIdle
  /\ TagsIdle
  /\ pcC = "request"
  /\ entry = "api"
  /\ req_days_old = 0
  /\ req_status_filter = {}
  /\ status_filter = {}
  /\ age_days = 0
  /\ row_present = TRUE
  /\ faults = {}
  /\ cleanup_stats = [jobs_deleted |-> 0, errors |-> {}]
  /\ jobs_count = NoPreview

\* what a worker of the deleted job does not write
flightFrame == <<tasks, decomposeVars, pcS, result, revoked, audio,
                 assembleVars, now, output, scheduled, historyVars,
                 synthVars, crudVars, rowVars, apiVars, brokerVars, parseVars,
                 redeliverVars, cancelVars, keyVars, tagsVars, pcC, entry,
                 req_days_old,
                 req_status_filter, status_filter, age_days, row_present,
                 faults, cleanup_stats, jobs_count>>

\* cleanup_service.py 93-101: the row is looked up by id, no test of its
\* status; a missing row is reported and skipped
CleanupSpecific ==
  /\ pcC = "request"
  /\ pcC' = IF row_present THEN "pptx" ELSE "done"
  /\ UNCHANGED <<cleanupFrame, jobs_count, status_filter, row_present, store,
                 faults, cleanup_stats>>

\* crud.py 52-64 on the job's table: without the row nothing is written
FlightUpdateJob(status, video_path) ==
  IF row_present THEN update_job_status(job, status, video_path, NULL, NULL)
  ELSE job

\* tasks_gpu.py 118-122, 345-352: the task starts and reads the job row; when
\* there is none it raises, and its handler's two updates find no row
FlightSynthStart ==
  /\ fl_synth = "queued"
  /\ fl_synth' = IF row_present THEN "running" ELSE "done"
  /\ UNCHANGED <<flightFrame, job, store, fl_asm>>

\* tasks_gpu.py 303-311: the audio goes to {job_id}/audio/slide_{n}.wav;
\* the upload does not read the row
FlightSynthUpload ==
  /\ fl_synth = "running"
  /\ store' = store \cup {"audio"}
  /\ fl_synth' = "uploaded"
  /\ UNCHANGED <<flightFrame, job, fl_asm>>

\* tasks_gpu.py 313-317: the task row is updated when there is one
FlightSynthComplete ==
  /\ fl_synth = "uploaded"
  /\ fl_synth' = "done"
  /\ UNCHANGED <<flightFrame, job, store, fl_asm>>

\* tasks_cpu.py 127-162, 183: the barrier has seen the synthesize task
\* settled and assemble_video writes assembling_video
FlightAssembleStart ==
  /\ fl_asm = "queued"
  /\ fl_synth = "done"
  /\ job' = FlightUpdateJob("assembling_video", NULL)
  /\ fl_asm' = "download"
  /\ UNCHANGED <<flightFrame, store, fl_synth>>

\* tasks_cpu.py 185-269: images and audio are fetched and the video is
\* written to a local file; a missing image or audio raises
FlightAssembleClips ==
  /\ fl_asm = "download"
  /\ fl_asm' = IF {"images", "audio"} \subseteq store THEN "upload"
               ELSE "except"
  /\ UNCHANGED <<flightFrame, job, store, fl_synth>>

\* tasks_cpu.py 271-278: the video goes to output/{job_id}.mp4; the upload
\* does not read the row
FlightAssembleUpload ==
  /\ fl_asm = "upload"
  /\ store' = store \cup {"video"}
  /\ fl_asm' = "complete"
  /\ UNCHANGED <<flightFrame, job, fl_synth>>

\* tasks_cpu.py 281
FlightAssembleComplete ==
  /\ fl_asm = "complete"
  /\ job' = FlightUpdateJob("completed", VIDEO_PATH)
  /\ fl_asm' = "done"
  /\ UNCHANGED <<flightFrame, store, fl_synth>>

\* tasks_cpu.py 283-285
FlightAssembleExcept ==
  /\ fl_asm = "except"
  /\ job' = FlightUpdateJob("failed", NULL)
  /\ fl_asm' = "done"
  /\ UNCHANGED <<flightFrame, store, fl_synth>>

NextFlight ==
  \/ CleanupSpecific
  \/ CleanupDeleteFile
  \/ CleanupDeleteFileFails
  \/ CleanupDeletePrefix
  \/ CleanupDeletePrefixFails
  \/ CleanupDeleteRow
  \/ CleanupDeleteRowRaises
  \/ FlightSynthStart
  \/ FlightSynthUpload
  \/ FlightSynthComplete
  \/ FlightAssembleStart
  \/ FlightAssembleClips
  \/ FlightAssembleUpload
  \/ FlightAssembleComplete
  \/ FlightAssembleExcept

SpecFlight == InitFlight /\ [][NextFlight]_vars

(* ------------- the two copies of parse_note_text_tags ------------------ *)
\* longest note, in directives and words
MaxNote == 2

\* a note is a sequence of words and directives [NAME:arg] separated by
\* blanks; the ones drawn, names in upper case and arguments in lower case
NoteTokens ==
  {[name |-> "word", arg |-> "hi"],
   [name |-> "EMOTION", arg |-> "happy"],
   [name |-> "EMOTION", arg |-> "calm"],
   [name |-> "EMOTION", arg |-> "bored"],
   [name |-> "SPEED", arg |-> "fast"],
   [name |-> "SPEED", arg |-> "5"],
   [name |-> "PITCH", arg |-> "low"],
   [name |-> "PITCH", arg |-> "x"],
   [name |-> "PAUSE", arg |-> "2"],
   [name |-> "EMPHASIS", arg |-> "hi"]}

\* the characters of the arguments drawn for SPEED, PITCH and PAUSE
Chars(arg) ==
  CASE arg = "fast" -> <<"f", "a", "s", "t">>
    [] arg = "low" -> <<"l", "o", "w">>
    [] arg = "5" -> <<"5">>
    [] arg = "2" -> <<"2">>
    [] OTHER -> <<"x">>

\* str.upper() on the arguments drawn for EMPHASIS
Upper(arg) == IF arg = "hi" THEN "HI" ELSE arg

\* tasks_gpu.py 57: the alternatives of the EMOTION group
INLINE_EMOTIONS == {"happy", "sad", "excited", "calm", "angry", "neutral"}

\* text_processing.py 24, tts_service.py 83: the alternatives of the group
PROCESSOR_EMOTIONS == {"excited", "sad", "angry", "happy", "neutral"}

\* re.search: the first token of the note that satisfies Hit; 0 without one
FirstMatch(note, Hit(_)) ==
  LET hits == {i \in 1..Len(note) : Hit(note[i])}
  IN IF hits = {} THEN 0 ELSE CHOOSE i \in hits : \A k \in hits : i <= k

\* re.sub(r'\[NAME:[^\]]+\]', '', text): every directive of the name goes
Without(note, name) == SelectSeq(note, LAMBDA t : t.name # name)

\* \[PITCH:(low|normal|high|[\d.]+)\]
PitchMatch(t) ==
  /\ t.name = "PITCH"
  /\ \/ Lower(Chars(t.arg)) \in {<<"l", "o", "w">>, <<"h", "i", "g", "h">>,
                                  <<"n", "o", "r", "m", "a", "l">>}
     \/ IsDigitsAndDots(Chars(t.arg))

\* lines 82-95: the pitch of the matched directive
ParsedPitch(w) ==
  CASE Lower(w) = <<"l", "o", "w">> -> (8 * Scale) \div 10
    [] Lower(w) = <<"h", "i", "g", "h">> -> (12 * Scale) \div 10
    [] Lower(w) = <<"n", "o", "r", "m", "a", "l">> -> Scale
    [] OTHER -> IF FloatParses(w) THEN Clamp(Float(w)) ELSE Scale

RECURSIVE CommaString(_)
\* ',' * n
CommaString(n) == IF n = 0 THEN "" ELSE "," \o CommaString(n - 1)

\* lines 98-101: [PAUSE:n] becomes n commas, [EMPHASIS:x] becomes x.upper()
Rewritten(t) ==
  IF t.name = "PAUSE" /\ \A i \in 1..Len(Chars(t.arg)) :
                            Chars(t.arg)[i] \in Digits
    THEN [name |-> "word", arg |-> CommaString(Float(Chars(t.arg)) \div Scale)]
  ELSE IF t.name = "EMPHASIS"
    THEN [name |-> "word", arg |-> Upper(t.arg)]
  ELSE t

\* parse_note_text_tags with the EMOTION alternatives of one of the copies;
\* the rest of the two functions is the same text
ParseTags(note, emotions) ==
  LET e == FirstMatch(note, LAMBDA t : t.name = "EMOTION" /\ t.arg \in emotions)
      t1 == IF e = 0 THEN note ELSE Without(note, "EMOTION")
      sp == FirstMatch(t1, LAMBDA t : SpeedMatch(t.name, Chars(t.arg)))
      t2 == IF sp = 0 THEN t1 ELSE Without(t1, "SPEED")
      pi == FirstMatch(t2, PitchMatch)
      t3 == IF pi = 0 THEN t2 ELSE Without(t2, "PITCH")
  IN [clean_text |-> [i \in 1..Len(t3) |-> Rewritten(t3[i])],
      emotion |-> IF e = 0 THEN "neutral" ELSE note[e].arg,
      speed |-> IF sp = 0 THEN Scale
                ELSE ParsedSpeed(t1[sp].name, Chars(t1[sp].arg)),
      pitch |-> IF pi = 0 THEN Scale ELSE ParsedPitch(Chars(t2[pi].arg))]

InitTags ==
  /\ PipelineInit
  /\ SynthIdle
  /\ CleanupIdle
  /\ BaseIdle
  /\ CancelIdle
  /\ KeyIdle
  /\ FlightIdle
  /\ tg_note \in UNION {[1..k -> NoteTokens] : k \in 0..MaxNote}
  /\ tg_inline = <<>>
  /\ tg_proc = <<>>

tagsFrame == <<pipelineVars, synthVars, cleanupVars, crudVars, rowVars,
               apiVars, brokerVars, parseVars, redeliverVars, cancelVars,
               keyVars, flightVars, tg_note>>

\* tasks_gpu.py 35-107, called at line 196
ParseInline ==
  /\ tg_inline = <<>>
  /\ tg_inline' = <<ParseTags(tg_note, INLINE_EMOTIONS)>>
  /\ UNCHANGED <<tagsFrame, tg_proc>>

\* text_processing.py 8-74 (tts_service.py 67-134 is the same text)
ParseProcessor ==
  /\ tg_proc = <<>>
  /\ tg_proc' = <<ParseTags(tg_note, PROCESSOR_EMOTIONS)>>
  /\ UNCHANGED <<tagsFrame, tg_inline>>

NextTags == ParseInline \/ ParseProcessor

SpecTags == InitTags /\ [][NextTags]_vars

(* ============================== claims ================================= *)

\* C1: terminal job statuses are absorbing: once the job's status is
\* completed, failed or cancelled, no later step changes it to another status.
C1_TerminalAbsorbing ==
  [][job.status \in TerminalJob => job'.status = job.status]_vars

\* the order pending -> processing_slides -> synthesizing_audio ->
\* assembling_video -> completed
Rank(status) ==
  CASE status = "pending" -> 0
    [] status = "processing_slides" -> 1
    [] status = "synthesizing_audio" -> 2
    [] status = "assembling_video" -> 3
    [] status = "completed" -> 4
    [] OTHER -> 5

\* C2: in the interleavings of the decompose, synthesize and assemble workers
\* (no cancel), the job's status never moves backwards along pending ->
\* processing_slides -> synthesizing_audio -> assembling_video -> completed.
C2_StatusNeverBackwards ==
  [][(~cancelDone' /\ Rank(job.status) < 5 /\ Rank(job'.status) < 5)
       => Rank(job'.status) >= Rank(job.status)]_vars

\* C3: once assemble_video has been called (Phase B), decompose has sent every
\* synthesize message of the fan-out and every task id the barrier was given
\* is ready in the result backend.
C3_PhaseBAfterSettled ==
  phaseB =>
    /\ pcD \in {"set_synthesizing", "done"}
    /\ audio_task_ids = 1..num_slides
    /\ \A t \in audio_task_ids :
         /\ pcS[t] = "done"
         /\ result[t] \in READY_STATES

C3_Witness ==
  /\ pcA = "download"
  /\ audio_task_ids = 1..MaxSlides
  /\ job.status = "assembling_video"

\* C4: when the barrier finds the deadline passed with a task id not yet in
\* completed_tasks, its step sets the job failed with the timeout error and
\* ends the task; a task that timed out has not called assemble_video, writes
\* nothing more and uploads no video.
C4_TimeoutFailsWithoutAssembly ==
  /\ [][(/\ pcA = "while"
         /\ ~BarrierOpen(completed_tasks, audio_task_ids)
         /\ TimedOut(now - start_time)
         /\ pcA' # pcA)
        => (/\ job'.status = "failed"
            /\ job'.error_message = TIMEOUT_MSG
            /\ timedOut'
            /\ pcA' = "done")]_vars
  /\ [](timedOut => (pcA = "done" /\ ~phaseB /\ ~output
                     /\ job.s3_video_path = NULL))

C4_Witness ==
  /\ timedOut
  /\ job.status = "failed"
  /\ job.error_message = TIMEOUT_MSG
  /\ \E t \in audio_task_ids : result[t] \notin READY_STATES

\* the audio_synthesis rows of the job
AudioRows == {r \in 1..Len(tasks) : tasks[r].task_type = "audio_synthesis"}

C6_VideoPathIffCompleted ==
  (job.s3_video_path # NULL) <=> (job.status = "completed")

\* C7: error_message is non-null exactly when the job's status is failed.
C7_ErrorIffFailed ==
  (job.error_message # NULL) <=> (job.status = "failed")

\* C8: when the job's status is completed, failed or cancelled, every task row
\* of the job has a terminal status.
C8_TerminalJobTerminalTasks ==
  job.status \in TerminalJob =>
    \A r \in 1..Len(tasks) : tasks[r].status \in TerminalTask

\* C9: cancel_job on a job in a non-terminal status leaves the job cancelled
\* and every row that was pending or running cancelled with completed_at set.
C9_CancelCancelsEveryLiveTask ==
  [][CancelJob =>
       /\ job'.status = "cancelled"
       /\ \A r \in 1..Len(tasks) :
            tasks[r].status \in {"pending", "running"} =>
              (tasks'[r].status = "cancelled" /\ tasks'[r].completed_at)]_vars

\* a step of the assemble task that writes the job row or uploads the video
AssembleWrites ==
  \/ BarrierTimeout
  \/ BarrierPollRaises
  \/ AssembleSetAssembling
  \/ AssembleUpload
  \/ AssembleComplete
  \/ AssembleExcept

\* C10: once cancel_job has cancelled a job whose assemble task was already
\* scheduled, that task never writes the job row and never uploads the video.
C10_NoAssemblyAfterCancel ==
  [][cancelScheduled => ~AssembleWrites]_vars

\* the audio_synthesis row of the execution that SpecSynth follows
SynthRow == tasks[RowByCeleryId(tasks, synth_slide)]

\* C11: when a synthesize_audio execution for an existing job has ended, its
\* task row is completed if any tier of the fallback chain produced an audio
\* file, and the row is failed only if the generation of silence itself
\* failed.
C11_FailedOnlyWhenSilenceFails ==
  pcV = "done" =>
    /\ (save_path # "none" /\ softAt = "none")
         => SynthRow.status = "completed"
    /\ SynthRow.status = "failed" => "silence" \in raised

\* C12: when the only errors of a synthesize_audio execution were raised by
\* the primary voice-cloned synthesis (reference-embedding extraction, base
\* TTS, tone conversion), the job is not set to failed.
C12_PrimaryErrorNeverFailsJob ==
  (raised # {} /\ raised \subseteq {"get_se", "tts", "convert"})
    => job.status # "failed"

\* C13: when the soft time limit fired during a synthesize_audio execution
\* in which nothing else raised, the execution ends with an audio object at
\* the key the assembler reads for that job and slide and with its task row
\* completed.
C13_SoftLimitEndsCompleted ==
  (softAt # "none" /\ raised = {} /\ pcV = "done")
    => /\ synth_slide \in audio
       /\ SynthRow.status = "completed"

\* C14: whenever a synthesize_audio execution has ended (returned: SUCCESS,
\* or raised: FAILURE) and no cancel was requested, the audio_synthesis row
\* of that slide is completed or failed, with completed_at set.
C14_EndedTaskRowTerminal ==
  \A s \in Slides :
    (result[s] \in {"SUCCESS", "FAILURE"} /\ ~cancelDone)
      => \E r \in AudioRows :
           /\ tasks[r].slide_number = s
           /\ tasks[r].status \in {"completed", "failed"}
           /\ tasks[r].completed_at

\* C15: for a slide whose notes object is empty or whitespace-only, an
\* execution in which nothing raised and no time limit fired substitutes
\* [SILENCE], generates silence without using the reference audio, TTS or
\* tone conversion, uploads the slide's audio object and completes the row.
C15_BlankNotesSilence ==
  (Strip(notes) = "" /\ raised = {} /\ softAt = "none" /\ pcV = "done")
    => /\ note_text = "[SILENCE]"
       /\ used = {}
       /\ save_path = SILENCE_1S
       /\ synth_slide \in audio
       /\ SynthRow.status = "completed"

\* C16: when decompose_presentation has ended after the renderer returned a
\* number of image paths different from the deck's slide count, the job is
\* failed with an error text, no audio_synthesis row exists, no synthesize
\* message was sent and no assemble task was scheduled.
C16_MismatchFailsWithError ==
  (pcD = "done" /\ image_paths # num_slides)
    => /\ job.status = "failed"
       /\ job.error_message # NULL
       /\ AudioRows = {}
       /\ \A s \in Slides : pcS[s] = "none"
       /\ scheduled = 0

\* C17: when assemble_video has ended and the audio object of some slide
\* 1..N did not exist, the job is failed with an error text, no output video
\* was uploaded and the job has no video path.
C17_MissingAudioFailsWithError ==
  (phaseB /\ pcA = "done" /\ MissingAudio(image_paths, audio) # {})
    => /\ job.status = "failed"
       /\ job.error_message # NULL
       /\ ~output
       /\ job.s3_video_path = NULL

\* C18: cleanup_old_jobs never deletes a job whose status is pending,
\* processing_slides, synthesizing_audio or assembling_video, for any
\* days_old and any status filter the API or the CLI accepts.
C18_NeverDeletesActiveJob ==
  ~row_present => job.status \notin ActiveStatuses

\* C19: after the deletion of a job has returned, no object of the job
\* exists at the source deck, the result video, {id}/notes/ or {id}/audio/
\* (nothing is stored under {uuid}/; the task rows are not part of this
\* model).
C19_NoObjectAfterDeletion ==
  (pcC = "done" /\ ~row_present)
    => store \cap {"pptx", "video", "notes", "audio"} = {}

\* C20: an object-store error while deleting an artifact of a job (steps
\* 1-4) is an entry of the errors returned to the caller, and the deletion
\* goes on to the job's remaining steps.
C20_StoreErrorsReported ==
  /\ (faults # {} /\ pcC = "done") => cleanup_stats.errors # {}
  /\ faults # {} => pcC \in {"video", "audio", "notes", "uuid", "row", "done"}

C21_PreviewWritesNothing ==
  [][CleanupPreview => UNCHANGED <<job, row_present, store, cleanup_stats>>]_vars

C23_UpdateJobStatusIdempotent ==
  [][/\ CrudUpdateTwice => crud_table' = crud_table
     /\ crud_table = <<>> => (crud_table' = <<>> /\ crud_ret' = <<>>)
     /\ crud_table # <<>> =>
           /\ crud_table' # <<>>
           /\ crud_table'[1].status = crud_args.status
           /\ crud_ret' = crud_table']_vars

C23_Witness ==
  /\ pcU = 2
  /\ crud_table # <<>>
  /\ crud_args.video_path = "text"
  /\ crud_args.error_message = ""
  /\ crud_table[1].s3_video_path = "text"
  /\ crud_table[1].error_message = "old"

\* C24: whatever update_task_status and cancel_job wrote to a task row, its
\* completed_at is set exactly when its status is completed, failed or
\* cancelled, and a started_at that is set never changes.
C24_CompletedAtIffTerminal ==
  /\ [](task_row.completed_at # NoTime <=> task_row.status \in TerminalTask)
  /\ [][task_row.started_at # NoTime =>
          task_row'.started_at = task_row.started_at]_vars

\* C25: a create_presentation request that is answered with the job has
\* added one row, of status pending, and sent exactly one
\* decompose_presentation message, which carries the id of that row; a
\* request with another content type is answered 400, adds no row and sends
\* no message.
C25_OneRowOneMessage ==
  pcP = "done" =>
    /\ response = 200 =>
         /\ api_rows = Append(rows_before, NewJob)
         /\ api_rows[Len(api_rows)].status = "pending"
         /\ api_sent = Append(sent_before, Len(api_rows))
    /\ content_type # PPTX =>
         /\ response = 400
         /\ api_rows = rows_before
         /\ api_sent = sent_before

C25_Witness ==
  /\ pcP = "done"
  /\ response = 200
  /\ api_sent = <<1, 2>>
  /\ requests = 3

\* C26: when an execution of decompose_presentation, assemble_video or
\* synthesize_audio failed with an exception (the body raised an Exception,
\* or the time limit was met and the placeholder failed too), the job is
\* written failed and the execution is recorded by the broker as failed,
\* never as successful.
C26_FailureReachesBroker ==
  (bk_pc = "done" /\ (bk_raised = "Exception" \/ bk_exc)) =>
     /\ bk_job_status = "failed"
     /\ bk_state = "FAILURE"

\* C27: whenever an audio_synthesis task row exists, or a synthesize_audio
\* message was sent, the job's num_slides is already written, is the N > 0 that
\* decompose_presentation counted, and no more rows exist than N.
C27_SlideCountBeforeFanOut ==
  (AudioRows # {} \/ \E s \in Slides : pcS[s] # "none") =>
     /\ job.num_slides > 0
     /\ job.num_slides = num_slides
     /\ Cardinality(AudioRows) <= job.num_slides

C27_Witness ==
  /\ pcD = "send_task"
  /\ Cardinality(AudioRows) = 1
  /\ \A s \in Slides : pcS[s] = "none"
  /\ job.num_slides = MaxSlides

C29_StatusBeforeAssembleQueued ==
  pcA \notin {"none", "done"} => job.status # "processing_slides"

DecompositionRows ==
  {r \in 1..Len(tasks) : tasks[r].task_type = "decomposition"}

\* C30: when decompose_presentation ran to its end, its message is delivered
\* again and the second execution has ended too, the job still has exactly
\* num_slides audio_synthesis task rows, one decomposition task row and one
\* scheduled assemble task.
C30_SecondExecutionNoEffect ==
  (deliveries = 2 /\ pcD = "done" /\ scheduled_once = 1) =>
     /\ Cardinality(AudioRows) = job.num_slides
     /\ Cardinality(DecompositionRows) = 1
     /\ scheduled = 1

\* C31: when every task id the barrier waits for is settled in the result
\* backend at the moment the loop evaluates a round, the barrier does not take
\* its timeout branch, whatever the elapsed time.
C31_SettledNeverTimesOut ==
  [][(pcA = "while" /\ \A t \in audio_task_ids : result[t] \in READY_STATES)
       => ~(timedOut' /\ ~timedOut)]_vars

\* C32: a polling round of the barrier adds every task whose result is ready,
\* successful or not, to completed_tasks; a task once added stays added (it is
\* not polled again); no step of the loop other than its timeout writes the job;
\* and assembly goes on to its upload only when no slide's audio is missing.
C32_UnsuccessfulCountsAsSettled ==
  [][/\ (pcA = "poll" /\ pcA' \in {"while", "sleep"})
          => \A t \in audio_task_ids :
               result[t] \in READY_STATES => t \in completed_tasks'
     /\ pcA \in {"while", "poll", "sleep"}
          => completed_tasks \subseteq completed_tasks'
     /\ (pcA \in {"while", "poll", "sleep"} /\ pcA' # pcA /\ pcA' # "done")
          => job' = job
     /\ (pcA = "download" /\ pcA' = "upload")
          => MissingAudio(image_paths, audio) = {}]_vars

\* the barrier has let a job through whose synthesize task failed, and the
\* assembly has found the slide's audio missing
C32_Witness ==
  /\ pcA = "except"
  /\ \E t \in completed_tasks :
       result[t] = "FAILURE" /\ t \in MissingAudio(image_paths, audio)

C34_TerminalCancelRejected ==
  [][CancelRequest
       => /\ (cancel_id' = JOB_ID /\ job.status \in TerminalJob)
               => cancel_status' = 400
          /\ cancel_id' # JOB_ID => cancel_status' = 404
          /\ cancel_status' \in {400, 404}
               => job' = job /\ tasks' = tasks /\ revoked' = revoked]_vars

\* a request for the completed job has been refused while a task row that
\* a cancel would have revoked exists
C34_Witness ==
  /\ cancel_status = 400
  /\ cancel_id = JOB_ID
  /\ job.status = "completed"
  /\ revoked = {}
  /\ Revocable(tasks) # {}

\* C35: the object synthesize_audio uploads for a slide is the one
\* assemble_video looks for and the one download_slide_audio serves: once the
\* upload of a slide has completed, assembly finds the slide's audio and a
\* download request for the slide is answered 200.
C35_ReadersFindAudio ==
  key_pc = "completed"
    => /\ key_asm # "missing"
       /\ key_dl_slide = key_slide => key_dl = 200
       /\ SynthKey(key_job_id, key_slide) = AssembleKey(key_job_id, key_slide)
       /\ SynthKey(key_job_id, key_slide)
            = DownloadKey(PptxPath(key_uuid), key_slide)

\* C36: a job in status cancelled that is older than the age threshold is
\* counted by a preview and deleted by a cleanup that run with their default
\* status filter (a request that carries none).
C36_CancelledReapedByDefault ==
  (/\ job.status = "cancelled"
   /\ entry = "api"
   /\ req_status_filter = {}
   /\ req_days_old >= 1
   /\ age_days > req_days_old)
    => /\ jobs_count # NoPreview => jobs_count = 1
       /\ pcC = "done" => ~row_present

\* C37: under fair workers and message delivery the job reaches completed,
\* failed or cancelled and keeps a terminal status from then on.
C37_EventuallyTerminalForever == <>[](job.status \in TerminalJob)

\* C38: when cleanup_specific_jobs has deleted the job (row gone, no
\* object-store error met) and the job's tasks that were in flight have
\* ended, neither the slide audio nor the video of the job exists.
C38_NoArtifactAfterDeletion ==
  (/\ pcC = "done"
   /\ ~row_present
   /\ faults = {}
   /\ fl_synth = "done"
   /\ fl_asm = "done")
    => store \cap {"audio", "video"} = {}

\* C39: on every note the inline parse_note_text_tags of the synthesis
\* worker and TextProcessor.parse_note_text_tags return the same
\* (clean_text, emotion, speed, pitch).
C39_ParsersAgree ==
  (tg_inline # <<>> /\ tg_proc # <<>>) => tg_inline = tg_proc

====
